---- MODULE Spec2Model ----
(***************************************************************************)
(* Model of the per-tenant block shipper (Shipper.Sync and the shipper     *)
(* meta files) and of the userTSDB shipped-block cache and blocksToDelete. *)
(***************************************************************************)
EXTENDS Integers, Sequences, FiniteSets, TLC

\* ---------------------------------------------------------------- bounds
\* Number of block IDs (ULIDs) the tenant can ever create.
NumBlocks == 2
\* The wall clock runs from 0 to MaxNow (in nanosecond units).
MaxNow == 2
\* Nanosecond units per model.Time unit (millisecond), scaled down.
NanosPerMilli == 2
\* Cap on the per-block count of successful uploads that is recorded.
MaxUploads == 2

\* Number of concurrent push requests.
NumPushers == 2
\* Number of concurrent compactHead calls.
NumCompactors == 2
\* Head timestamps range over -MaxHeadTime..MaxHeadTime.
MaxHeadTime == 3
\* Number of concurrent series creations.
NumCreators == 2
\* Largest MaxInMemorySeries limit, and cap of the series counters.
MaxSeries == 2
\* Number of goroutines that take the two mutexes.
NumLockers == 4

\* ------------------------------------------------------------- constants
shipperMetaVersion1 == 1

\* tsdbState
active == "active"
activeShipping == "activeShipping"
forceCompacting == "forceCompacting"
closing == "closing"
closed == "closed"
tsdbState == {active, activeShipping, forceCompacting, closing, closed}

Pushers == 1..NumPushers
Compactors == 1..NumCompactors
HeadTimes == (0 - MaxHeadTime)..MaxHeadTime
\* blockDuration values compactHead is called with
BlockDurations == {2, 3}

BlockIDs == 1..NumBlocks
\* Concurrent updateCachedShippedBlocks calls, and holders of a returned snapshot.
Refreshers == {1, 2}
Readers == {1}
\* Metric names of the series created; NoName: a label set without a metric name.
NoName == "no __name__"
MetricNames == {"m1", "m2"}
LabelSets == MetricNames \cup {NoName}
\* Concurrent series creations.
Creators == 1..NumCreators
\* Goroutines calling the operations that take stateMtx or shippedBlocksMtx.
Lockers == 1..NumLockers
\* Millisecond units per second, scaled down.
MillisPerSecond == 2
\* Nanosecond units per second (time.Unix counts seconds, time.Time nanoseconds).
NanosPerSecond == NanosPerMilli * MillisPerSecond
\* idleTimeout values shouldCloseTSDB is called with
IdleTimeouts == {0, 1, NanosPerSecond, 2 * NanosPerSecond}

\* minTime of the block with a given ID (block IDs are creation-ordered, the
\* data they hold is not: 100, 50, 200, then a repeat of 50).
MinTimes == <<100, 50, 200, 50>>
MinTime(b) == MinTimes[((b - 1) % Len(MinTimes)) + 1]

NoMeta == [numSamples |-> -1, level |-> -1]
\* What a new block can be: shippable, empty, or of a compaction level above 1.
Profiles == {[numSamples |-> 1, level |-> 1],
             [numSamples |-> 0, level |-> 1],
             [numSamples |-> 1, level |-> 2]}

\* Contents of a meta file on disk.
Absent == [kind |-> "absent"]
Garbled == [kind |-> "garbled"]
\* A temporary file left behind by a write that did not get to its rename: what
\* it holds, whole or truncated, is never read, and the next os.Create of the
\* same name truncates it.
Stale == [kind |-> "stale"]
LeftBehind(tmp) == IF tmp = Absent THEN Absent ELSE Stale
\* A file of another version; what it lists is never read.
OtherVersion(kind) == [kind |-> kind, version |-> shipperMetaVersion1 + 1]

\* Return value of Sync; NoRet while no call has returned since the last start.
NoRet == [kind |-> "none"]
NilErr == [kind |-> "nil", n |-> 0]
ErrCheckExists == [kind |-> "check exists", n |-> 0]
ErrReadDir == [kind |-> "read dir", n |-> 0]
ErrFailedToSync(n) == [kind |-> "failed to sync blocks", n |-> n]

EmptyMap == << >>
Put(f, k, v) == [x \in (DOMAIN f) \cup {k} |-> IF x = k THEN v ELSE f[x]]

VARIABLES
    mode,            \* "head_only" (u.head # nil, u.db = nil), "blocks" (u.db # nil, u.shipper = nil), "blocks_shipping"
    now,             \* wall clock, nanosecond units
    blockMeta,       \* meta.json of every block ever created (NoMeta: not created yet)
    local,           \* block directories present in the tenant's directory
    remote,          \* blocks whose meta.json object exists in the bucket
    curFile,         \* <dir>/mimir.shipper.json
    legFile,         \* <dir>/thanos.shipper.json
    curTmp,          \* <dir>/mimir.shipper.json.tmp
    legTmp,          \* <dir>/thanos.shipper.json.tmp
    u_shippedBlocks, \* userTSDB.shippedBlocks (cached snapshot, key set)
    pc,              \* position of the Sync call
    shippedBlocks,   \* Sync: previously shipped blocks (block -> time.Time)
    metas,           \* Sync: block metas, oldest first
    idx,             \* Sync: position in metas
    meta,            \* Sync: shipperMeta.Shipped being built (block -> model.Time)
    shipped,         \* Sync: named result "shipped"
    uploadErrs,      \* Sync: number of failed uploads
    ret,             \* what Sync returned, in the state right after its return (NoRet otherwise)
    calls,           \* bucket calls (Exists, Upload) of the pass, kept until the step after its return
    uploadCount,     \* per block: number of uploads that succeeded (capped)
    deletable,       \* blocksToDelete: the storage engine's deletable set, in the state right after a call
    toDelete,        \* blocksToDelete: the result, in the state right after a call
    lastRun,         \* the last Sync pass: "running", "tainted" (running, a block appeared since its start),
                     \* "aborted" (returned before the persist step), "returned" (after it),
                     \* "clean" (returned nil with the record written), "none"
    prevRun,         \* outcome of the pass before the current/last one, "none" if a block appeared since
    disturbed,       \* a meta file was damaged while the current pass was running
    state,           \* userTSDB.state
    pushesInFlight,  \* userTSDB.pushesInFlight (the WaitGroup's counter)
    push,            \* per push request: "idle", or "appending" between acquireAppendLock and releaseAppendLock
    chPc,            \* per compactHead call: "idle", "wait" (at pushesInFlight.Wait), "loop", "last"
    chDur,           \* compactHead: blockDuration
    chMin,           \* compactHead: minTime
    chMax,           \* compactHead: maxTime
    shipping,        \* a shipping pass holds the state (it won active -> activeShipping)
    closePc,         \* the shutdown sequence: "idle", "drain" (it won the transition to closing), "done"
    compacted,       \* per compactHead call: the time ranges it has passed to CompactHead
    lret,            \* what the last lifecycle call returned, in the state right after its return
    deletionMarkFound, \* userTSDB.deletionMarkFound
    lastUpdate,      \* userTSDB.lastUpdate (Unix seconds)
    headNumSeries,   \* u.HeadNumSeries()
    fresh,           \* per updateCachedShippedBlocks call: the map it has read and not yet stored
    held,            \* per reader: the map getCachedShippedBlocks returned to it (seen: its keys
                     \* at the return, obj: the keys of that map object now, cur: it is still u.shippedBlocks)
    reads,           \* the key sets of the maps completed reads of the record have produced
    limiter,         \* userTSDB.limiter: "nil" or "set"
    instanceLimits,  \* instanceLimitsFn(): -1 for nil, else MaxInMemorySeries
    instanceSeriesCount, \* the shared instance-wide series counter
    seriesInMetric,  \* per metric name: the tenant's series counter
    headSeries,      \* per label set: the series of it the head holds
    creating,        \* per series creation: "idle", or the label set between PreCreation and PostCreation
    stateMtx,        \* userTSDB.stateMtx: w, the goroutine holding the write lock (0: none),
                     \* and r, the goroutines holding a read lock
    shippedBlocksMtx, \* userTSDB.shippedBlocksMtx: the goroutine holding it (0: none)
    locker           \* per goroutine: where it is in its call (pc), and the map a refresh has read (got)

vars == <<mode, now, blockMeta, local, remote, curFile, legFile, curTmp, legTmp,
          u_shippedBlocks,
          pc, shippedBlocks, metas, idx, meta, shipped, uploadErrs, ret, calls,
          uploadCount, deletable, toDelete, lastRun, prevRun, disturbed,
          state, pushesInFlight, push, chPc, chDur, chMin, chMax, shipping, closePc,
          compacted, lret, deletionMarkFound, lastUpdate, headNumSeries,
          fresh, held, reads,
          limiter, instanceLimits, instanceSeriesCount, seriesInMetric, headSeries,
          creating, stateMtx, shippedBlocksMtx, locker>>

syncLocals == <<shippedBlocks, metas, idx, meta, shipped, uploadErrs>>
files == <<curFile, legFile>>
tmpFiles == <<curTmp, legTmp>>
btdVars == <<deletable, toDelete>>
runVars == <<lastRun, prevRun, disturbed>>
\* the shipper, its files and the cache
shipVars == <<mode, now, blockMeta, local, remote, curFile, legFile, curTmp, legTmp,
              u_shippedBlocks,
              pc, shippedBlocks, metas, idx, meta, shipped, uploadErrs, ret, calls,
              uploadCount, deletable, toDelete, lastRun, prevRun, disturbed>>
\* concurrent refreshes and reads of the cache
snapVars == <<fresh, held, reads>>
\* the series admission callbacks
seriesVars == <<limiter, instanceLimits, instanceSeriesCount, seriesInMetric, headSeries,
                creating>>
\* the two mutexes and the goroutines that take them
lockVars == <<stateMtx, shippedBlocksMtx, locker>>
\* what the idle-close decision reads
closeVars == <<deletionMarkFound, lastUpdate, headNumSeries>>
\* the lifecycle state machine
lifeVars == <<state, pushesInFlight, push, chPc, chDur, chMin, chMax, shipping, closePc,
             compacted, lret>>

HeadNotNil == mode = "head_only"
DbNil == mode = "head_only"
ShipperNil == mode # "blocks_shipping"

Created == {b \in BlockIDs : blockMeta[b] # NoMeta}

\* ------------------------------------------------------ time conversions
\* model.TimeFromUnixNano: nanoseconds to model.Time (milliseconds), truncating.
TimeFromUnixNano(ns) == ns \div NanosPerMilli
\* model.Time.Time(): milliseconds back to a time.Time (nanoseconds).
ModelTimeToTime(ms) == ms * NanosPerMilli
\* model.Now()
ModelNow == TimeFromUnixNano(now)

\* ------------------------------------------------------ reading the files
ReadErr == [err |-> TRUE, blocks |-> EmptyMap]

\* readShipperMetaFile: error when the file is missing, unparseable or of another version.
readShipperMetaFile(f) ==
    IF f.kind # "meta" THEN [err |-> TRUE, notExist |-> f.kind = "absent", shipped |-> EmptyMap]
    ELSE IF f.version # shipperMetaVersion1 THEN [err |-> TRUE, notExist |-> FALSE, shipped |-> EmptyMap]
    ELSE [err |-> FALSE, notExist |-> FALSE, shipped |-> f.shipped]

\* readThanosShipperMetaFile
readThanosShipperMetaFile(f) ==
    IF f.kind # "thanos" THEN [err |-> TRUE, notExist |-> f.kind = "absent", uploaded |-> {}]
    ELSE IF f.version # shipperMetaVersion1 THEN [err |-> TRUE, notExist |-> FALSE, uploaded |-> {}]
    ELSE [err |-> FALSE, notExist |-> FALSE, uploaded |-> f.uploaded]

\* a missing legacy file reported like any other read failure
readThanosShippedBlocks_ErrOnMissing(f, t) ==
    LET r == readThanosShipperMetaFile(f) IN
    IF r.err THEN ReadErr
    ELSE [err |-> FALSE, blocks |-> [b \in r.uploaded |-> t]]
\* readThanosShippedBlocks: a missing legacy file is an empty record, any other
\* failure is returned; every block gets time.Now().
readThanosShippedBlocks(f, t) ==
    LET r == readThanosShipperMetaFile(f) IN
    IF r.err /\ ~r.notExist THEN ReadErr
    ELSE [err |-> FALSE, blocks |-> [b \in r.uploaded |-> t]]

\* Mutant: the legacy file is not consulted when the current one cannot be read.
readShippedBlocks_NoFallback(cur, leg, t) ==
    LET r == readShipperMetaFile(cur) IN
    IF r.err THEN ReadErr
    ELSE [err |-> FALSE, blocks |-> [b \in DOMAIN r.shipped |-> ModelTimeToTime(r.shipped[b])]]
\* the stored model.Time taken for a time.Time as it is (the Time() call left out)
readShippedBlocks_RawTime(cur, leg, t) ==
    LET r == readShipperMetaFile(cur) IN
    IF r.err THEN readThanosShippedBlocks(leg, t)
    ELSE [err |-> FALSE, blocks |-> [b \in DOMAIN r.shipped |-> r.shipped[b]]]
\* readShippedBlocks
readShippedBlocks(cur, leg, t) ==
    LET r == readShipperMetaFile(cur) IN
    IF r.err THEN readThanosShippedBlocks(leg, t)
    ELSE [err |-> FALSE, blocks |-> [b \in DOMAIN r.shipped |-> ModelTimeToTime(r.shipped[b])]]

\* ------------------------------------------------------------------ Init
Init ==
    /\ mode \in {"head_only", "blocks", "blocks_shipping"}
    /\ now = 0
    /\ blockMeta = [b \in BlockIDs |-> NoMeta]
    /\ local = {}
    /\ remote = {}
    /\ curFile = Absent
    /\ legFile = Absent
    /\ curTmp = Absent
    /\ legTmp = Absent
    /\ u_shippedBlocks = {}
    /\ pc = "idle"
    /\ shippedBlocks = EmptyMap
    /\ metas = << >>
    /\ idx = 0
    /\ meta = EmptyMap
    /\ shipped = 0
    /\ uploadErrs = 0
    /\ ret = NoRet
    /\ calls = << >>
    /\ uploadCount = [b \in BlockIDs |-> 0]
    /\ deletable = {}
    /\ toDelete = {}
    /\ lastRun = "none"
    /\ prevRun = "none"
    /\ disturbed = FALSE
    /\ state = active
    /\ pushesInFlight = 0
    /\ push = [p \in Pushers |-> "idle"]
    /\ chPc = [c \in Compactors |-> "idle"]
    /\ chDur = [c \in Compactors |-> 0]
    /\ chMin = [c \in Compactors |-> 0]
    /\ chMax = [c \in Compactors |-> 0]
    /\ shipping = FALSE
    /\ closePc = "idle"
    /\ compacted = [c \in Compactors |-> << >>]
    /\ lret = NoRet
    /\ deletionMarkFound = FALSE
    /\ lastUpdate = 0
    /\ headNumSeries = 0
    /\ fresh = [r \in Refreshers |-> NoRet]
    /\ held = [r \in Readers |-> NoRet]
    /\ reads = {}
    /\ limiter = "set"
    /\ instanceLimits = 0 - 1
    /\ instanceSeriesCount = 0
    /\ seriesInMetric = [m \in MetricNames |-> 0]
    /\ headSeries = [l \in LabelSets |-> 0]
    /\ creating = [g \in Creators |-> "idle"]
    /\ stateMtx = [w |-> 0, r |-> {}]
    /\ shippedBlocksMtx = 0
    /\ locker = [t \in Lockers |-> [pc |-> "idle", got |-> {}]]

\* ------------------------------------------------- Shipper.Sync: listing
Range(s) == {s[i] : i \in DOMAIN s}
\* All orders in which a directory listing can return the blocks of S.
Perms(S) == {s \in [1..Cardinality(S) -> S] : Range(s) = S}
\* less function given to sort.Slice
less(a, b) == MinTime(a) < MinTime(b)
IsSorted(s) == \A i, j \in DOMAIN s : i < j => ~less(s[j], s[i])

\* blockMetasFromOldest without the sort: the listing order.
blockMetasFromOldest_Unsorted(listing) == {listing}
\* blockMetasFromOldest: the metas of the listed block directories sorted by
\* sort.Slice, which is not stable: any ordering of them that is sorted by less.
blockMetasFromOldest(listing) == {s \in Perms(Range(listing)) : IsSorted(s)}

\* ---------------------------------------------- Shipper.Sync: per block
\* the previously shipped set never consulted
alreadyShipped_Never(m) == FALSE
\* lines 139: the block is in the previously shipped set
alreadyShipped(m) == m \in DOMAIN shippedBlocks
\* the empty-block check left out
isEmptyBlock_Never(m) == FALSE
isEmptyBlock(m) == blockMeta[m].numSamples = 0
aboveFirstLevel(m) == blockMeta[m].level > 1
\* a block that reaches the bucket existence check
needsCheck(m) == ~alreadyShipped(m) /\ ~isEmptyBlock(m) /\ ~aboveFirstLevel(m)

\* the result of bucket.Exists ignored: always upload
afterExists_AlwaysUpload(ok) == "upload"
\* what Sync does with the result of bucket.Exists
afterExists(ok) == IF ok THEN "record" ELSE "upload"

\* An entry of the log of bucket calls: the call, its result, and model.Now() then.
ExistsCall(m, res) == [op |-> "Exists", block |-> m, res |-> res, at |-> ModelNow]
UploadCall(m, res) == [op |-> "Upload", block |-> m, res |-> res, at |-> ModelNow]

\* The values a call returned are observed in the state right after it only.
ForgetRet ==
    /\ ret' = NoRet
    /\ calls' = IF pc = "idle" THEN << >> ELSE calls
ForgetBtd ==
    /\ deletable' = {}
    /\ toDelete' = {}

Advance ==
    /\ idx' = idx + 1
    /\ pc' = IF idx + 1 > Len(metas) THEN "write" ELSE "loop"

\* Sync returns (n, e); written tells whether writeShipperMetaFile returned nil.
\* ret.persisted: it did, and nothing else touched the meta files during the pass.
Return(n, e, written) ==
    /\ ret' = [kind |-> "returned", shipped |-> n, err |-> e,
               persisted |-> written /\ ~disturbed]
    /\ pc' = "idle"
    /\ shippedBlocks' = EmptyMap
    /\ metas' = << >>
    /\ idx' = 0
    /\ meta' = EmptyMap
    /\ shipped' = 0
    /\ uploadErrs' = 0
    /\ lastRun' = IF lastRun = "tainted" THEN "none"
                  ELSE IF e = ErrCheckExists THEN "aborted"
                  ELSE IF e = NilErr /\ written /\ ~disturbed THEN "clean"
                  ELSE "returned"
    /\ disturbed' = FALSE
    /\ UNCHANGED prevRun

\* Mutant: a record that cannot be read makes Sync return the read error.
SyncStart_FailsOnReadError ==
    /\ ~ShipperNil
    /\ pc = "idle"
    /\ prevRun' = IF lastRun \in {"aborted", "returned", "clean"} THEN lastRun ELSE "none"
    /\ disturbed' = FALSE
    /\ calls' = << >>
    /\ LET r == readShippedBlocks(curFile, legFile, now) IN
       IF r.err
       THEN /\ ret' = [kind |-> "returned", shipped |-> 0, err |-> [kind |-> "read shipper meta file", n |-> 0],
                       persisted |-> FALSE]
            /\ lastRun' = "aborted"
            /\ UNCHANGED <<pc, syncLocals>>
       ELSE /\ ret' = NoRet
            /\ lastRun' = "running"
            /\ shippedBlocks' = r.blocks
            /\ meta' = EmptyMap
            /\ uploadErrs' = 0
            /\ shipped' = 0
            /\ \E listing \in Perms(local) : \E ms \in blockMetasFromOldest(listing) :
                  /\ metas' = ms
                  /\ idx' = 1
                  /\ pc' = IF Len(ms) = 0 THEN "write" ELSE "loop"
    /\ ForgetBtd
    /\ UNCHANGED <<mode, now, blockMeta, local, remote, files, u_shippedBlocks, uploadCount>>
    /\ UNCHANGED lifeVars
    /\ UNCHANGED tmpFiles
    /\ UNCHANGED closeVars
    /\ UNCHANGED snapVars
    /\ UNCHANGED seriesVars
    /\ UNCHANGED lockVars

\* Sync, lines 117-135: read the record, list the blocks oldest first.
SyncStart ==
    /\ ~ShipperNil
    /\ pc = "idle"
    /\ prevRun' = IF lastRun \in {"aborted", "returned", "clean"} THEN lastRun ELSE "none"
    /\ lastRun' = "running"
    /\ disturbed' = FALSE
    /\ calls' = << >>
    /\ ret' = NoRet
    /\ LET r == readShippedBlocks(curFile, legFile, now) IN
       shippedBlocks' = IF r.err THEN EmptyMap ELSE r.blocks
    /\ meta' = EmptyMap
    /\ uploadErrs' = 0
    /\ shipped' = 0
    /\ \E listing \in Perms(local) : \E ms \in blockMetasFromOldest(listing) :
          /\ metas' = ms
          /\ idx' = 1
          /\ pc' = IF Len(ms) = 0 THEN "write" ELSE "loop"
    /\ ForgetBtd
    /\ UNCHANGED <<mode, now, blockMeta, local, remote, files, u_shippedBlocks, uploadCount>>
    /\ UNCHANGED lifeVars
    /\ UNCHANGED tmpFiles
    /\ UNCHANGED closeVars
    /\ UNCHANGED snapVars
    /\ UNCHANGED seriesVars
    /\ UNCHANGED lockVars

\* Sync, lines 132-135: blockMetasFromOldest fails (ReadDir, Stat or ReadFromDir).
SyncListFails ==
    /\ ~ShipperNil
    /\ pc = "idle"
    /\ prevRun' = IF lastRun \in {"aborted", "returned", "clean"} THEN lastRun ELSE "none"
    /\ calls' = << >>
    /\ ret' = [kind |-> "returned", shipped |-> 0, err |-> ErrReadDir, persisted |-> FALSE]
    /\ lastRun' = "aborted"
    /\ disturbed' = FALSE
    /\ ForgetBtd
    /\ UNCHANGED <<mode, now, blockMeta, local, remote, files, u_shippedBlocks, pc,
                   syncLocals, uploadCount>>
    /\ UNCHANGED lifeVars
    /\ UNCHANGED tmpFiles
    /\ UNCHANGED closeVars
    /\ UNCHANGED snapVars
    /\ UNCHANGED seriesVars
    /\ UNCHANGED lockVars

loopFrame == <<mode, now, blockMeta, local, files, u_shippedBlocks>>

\* Mutant: the carried block is given the time of this pass.
SyncCarry_Restamps ==
    /\ pc = "loop"
    /\ LET m == metas[idx] IN
       /\ alreadyShipped(m)
       /\ meta' = Put(meta, m, ModelNow)
    /\ Advance
    /\ ForgetBtd
    /\ UNCHANGED <<loopFrame, remote, shippedBlocks, metas, shipped, uploadErrs, ret,
                   calls, uploadCount, runVars>>
    /\ UNCHANGED lifeVars
    /\ UNCHANGED tmpFiles
    /\ UNCHANGED closeVars
    /\ UNCHANGED snapVars
    /\ UNCHANGED seriesVars
    /\ UNCHANGED lockVars

\* Mutant: a block shipped before is passed over without being put in the new record.
SyncCarry_Drops ==
    /\ pc = "loop"
    /\ LET m == metas[idx] IN
       /\ alreadyShipped(m)
       /\ UNCHANGED meta
    /\ Advance
    /\ ForgetBtd
    /\ UNCHANGED <<loopFrame, remote, shippedBlocks, metas, shipped, uploadErrs, ret,
                   calls, uploadCount, runVars>>
    /\ UNCHANGED lifeVars
    /\ UNCHANGED tmpFiles
    /\ UNCHANGED closeVars
    /\ UNCHANGED snapVars
    /\ UNCHANGED seriesVars
    /\ UNCHANGED lockVars

\* lines 139-142: already shipped, carry the timestamp forward.
SyncCarry ==
    /\ pc = "loop"
    /\ LET m == metas[idx] IN
       /\ alreadyShipped(m)
       /\ meta' = Put(meta, m, TimeFromUnixNano(shippedBlocks[m]))
    /\ Advance
    /\ ForgetBtd
    /\ UNCHANGED <<loopFrame, remote, shippedBlocks, metas, shipped, uploadErrs, ret,
                   calls, uploadCount, runVars>>
    /\ UNCHANGED lifeVars
    /\ UNCHANGED tmpFiles
    /\ UNCHANGED closeVars
    /\ UNCHANGED snapVars
    /\ UNCHANGED seriesVars
    /\ UNCHANGED lockVars

\* lines 144-148: ignore empty blocks.
SyncSkipEmpty ==
    /\ pc = "loop"
    /\ LET m == metas[idx] IN ~alreadyShipped(m) /\ isEmptyBlock(m)
    /\ Advance
    /\ ForgetBtd
    /\ UNCHANGED <<loopFrame, remote, shippedBlocks, metas, meta, shipped, uploadErrs,
                   ret, calls, uploadCount, runVars>>
    /\ UNCHANGED lifeVars
    /\ UNCHANGED tmpFiles
    /\ UNCHANGED closeVars
    /\ UNCHANGED snapVars
    /\ UNCHANGED seriesVars
    /\ UNCHANGED lockVars

\* lines 150-153: only the first compaction level is shipped.
SyncSkipLevel ==
    /\ pc = "loop"
    /\ LET m == metas[idx] IN
       ~alreadyShipped(m) /\ ~isEmptyBlock(m) /\ aboveFirstLevel(m)
    /\ Advance
    /\ ForgetBtd
    /\ UNCHANGED <<loopFrame, remote, shippedBlocks, metas, meta, shipped, uploadErrs,
                   ret, calls, uploadCount, runVars>>
    /\ UNCHANGED lifeVars
    /\ UNCHANGED tmpFiles
    /\ UNCHANGED closeVars
    /\ UNCHANGED snapVars
    /\ UNCHANGED seriesVars
    /\ UNCHANGED lockVars

\* the failed existence check only counted like a failed upload, the pass goes on
SyncExistsErr_Continues ==
    /\ pc = "loop"
    /\ LET m == metas[idx] IN
       /\ needsCheck(m)
       /\ calls' = Append(calls, ExistsCall(m, "err"))
    /\ uploadErrs' = uploadErrs + 1
    /\ Advance
    /\ ForgetBtd
    /\ UNCHANGED <<loopFrame, remote, shippedBlocks, metas, meta, shipped, ret,
                   uploadCount, runVars>>
    /\ UNCHANGED lifeVars
    /\ UNCHANGED tmpFiles
    /\ UNCHANGED closeVars
    /\ UNCHANGED snapVars
    /\ UNCHANGED seriesVars
    /\ UNCHANGED lockVars

\* Mutant: the record of the blocks shipped so far is written before the
\* failed existence check is returned.
SyncExistsErr_Persists ==
    /\ pc = "loop"
    /\ LET m == metas[idx] IN
       /\ needsCheck(m)
       /\ calls' = Append(calls, ExistsCall(m, "err"))
    /\ curFile' = [kind |-> "meta", version |-> shipperMetaVersion1, shipped |-> meta]
    /\ Return(0, ErrCheckExists, FALSE)
    /\ ForgetBtd
    /\ UNCHANGED <<mode, now, blockMeta, local, legFile, u_shippedBlocks, remote, uploadCount>>
    /\ UNCHANGED lifeVars
    /\ UNCHANGED tmpFiles
    /\ UNCHANGED closeVars
    /\ UNCHANGED snapVars
    /\ UNCHANGED seriesVars
    /\ UNCHANGED lockVars

\* lines 156-159: bucket.Exists fails, Sync returns 0 and the wrapped error.
SyncExistsErr ==
    /\ pc = "loop"
    /\ LET m == metas[idx] IN
       /\ needsCheck(m)
       /\ calls' = Append(calls, ExistsCall(m, "err"))
    /\ Return(0, ErrCheckExists, FALSE)
    /\ ForgetBtd
    /\ UNCHANGED <<loopFrame, remote, uploadCount>>
    /\ UNCHANGED lifeVars
    /\ UNCHANGED tmpFiles
    /\ UNCHANGED closeVars
    /\ UNCHANGED snapVars
    /\ UNCHANGED seriesVars
    /\ UNCHANGED lockVars

\* the block found in the bucket is recorded but not counted
SyncExistsTrue_NotCounted ==
    /\ pc = "loop"
    /\ LET m == metas[idx] IN
       /\ needsCheck(m)
       /\ m \in remote
       /\ afterExists(TRUE) = "record"
       /\ calls' = Append(calls, ExistsCall(m, "true"))
       /\ meta' = Put(meta, m, ModelNow)
    /\ Advance
    /\ ForgetBtd
    /\ UNCHANGED <<loopFrame, remote, shippedBlocks, metas, shipped, uploadErrs, ret,
                   uploadCount, runVars>>
    /\ UNCHANGED lifeVars
    /\ UNCHANGED tmpFiles
    /\ UNCHANGED closeVars
    /\ UNCHANGED snapVars
    /\ UNCHANGED seriesVars
    /\ UNCHANGED lockVars

\* lines 160-167: the meta object is in the bucket already.
SyncExistsTrue ==
    /\ pc = "loop"
    /\ LET m == metas[idx] IN
       /\ needsCheck(m)
       /\ m \in remote
       /\ afterExists(TRUE) = "record"
       /\ calls' = Append(calls, ExistsCall(m, "true"))
       /\ meta' = Put(meta, m, ModelNow)
       /\ shipped' = shipped + 1
    /\ Advance
    /\ ForgetBtd
    /\ UNCHANGED <<loopFrame, remote, shippedBlocks, metas, uploadErrs, ret,
                   uploadCount, runVars>>
    /\ UNCHANGED lifeVars
    /\ UNCHANGED tmpFiles
    /\ UNCHANGED closeVars
    /\ UNCHANGED snapVars
    /\ UNCHANGED seriesVars
    /\ UNCHANGED lockVars

\* the failed upload recorded as shipped all the same (the continue left out)
SyncUploadFails_Recorded ==
    /\ pc = "loop"
    /\ LET m == metas[idx] IN
       /\ needsCheck(m)
       /\ afterExists(m \in remote) = "upload"
       /\ calls' = calls \o <<ExistsCall(m, IF m \in remote THEN "true" ELSE "false"),
                              UploadCall(m, "failed")>>
       /\ uploadErrs' = uploadErrs + 1
       /\ meta' = Put(meta, m, ModelNow)
       /\ shipped' = shipped + 1
    /\ Advance
    /\ ForgetBtd
    /\ UNCHANGED <<loopFrame, remote, shippedBlocks, metas, ret, uploadCount, runVars>>
    /\ UNCHANGED lifeVars
    /\ UNCHANGED tmpFiles
    /\ UNCHANGED closeVars
    /\ UNCHANGED snapVars
    /\ UNCHANGED seriesVars
    /\ UNCHANGED lockVars

\* lines 169-175: the upload fails, the block is left for the next Sync.
SyncUploadFails ==
    /\ pc = "loop"
    /\ LET m == metas[idx] IN
       /\ needsCheck(m)
       /\ afterExists(m \in remote) = "upload"
       /\ calls' = calls \o <<ExistsCall(m, IF m \in remote THEN "true" ELSE "false"),
                              UploadCall(m, "failed")>>
       /\ uploadErrs' = uploadErrs + 1
    /\ Advance
    /\ ForgetBtd
    /\ UNCHANGED <<loopFrame, remote, shippedBlocks, metas, meta, shipped, ret,
                   uploadCount, runVars>>
    /\ UNCHANGED lifeVars
    /\ UNCHANGED tmpFiles
    /\ UNCHANGED closeVars
    /\ UNCHANGED snapVars
    /\ UNCHANGED seriesVars
    /\ UNCHANGED lockVars

\* lines 169-180: the upload succeeds.
SyncUploadOk ==
    /\ pc = "loop"
    /\ LET m == metas[idx] IN
       /\ needsCheck(m)
       /\ afterExists(m \in remote) = "upload"
       /\ m \in local
       /\ uploadCount[m] < MaxUploads
       /\ calls' = calls \o <<ExistsCall(m, IF m \in remote THEN "true" ELSE "false"),
                              UploadCall(m, "ok")>>
       /\ remote' = remote \cup {m}
       /\ uploadCount' = [uploadCount EXCEPT ![m] = @ + 1]
       /\ meta' = Put(meta, m, ModelNow)
       /\ shipped' = shipped + 1
    /\ Advance
    /\ ForgetBtd
    /\ UNCHANGED <<loopFrame, shippedBlocks, metas, uploadErrs, ret, runVars>>
    /\ UNCHANGED lifeVars
    /\ UNCHANGED tmpFiles
    /\ UNCHANGED closeVars
    /\ UNCHANGED snapVars
    /\ UNCHANGED seriesVars
    /\ UNCHANGED lockVars

\* ------------------------------------------- Shipper.Sync: persist, return
\* the failed uploads not reported
FinishSync_NilErr(written) == Return(shipped, NilErr, written)
\* lines 187-193 after writeShipperMetaFile returned.
FinishSync(written) ==
    Return(shipped, IF uploadErrs > 0 THEN ErrFailedToSync(uploadErrs) ELSE NilErr, written)

\* the write goes on to its next step
WriteGoes(to) ==
    /\ pc' = to
    /\ UNCHANGED <<syncLocals, ret, runVars>>

writeFrame == <<mode, now, blockMeta, local, remote, u_shippedBlocks, calls, uploadCount>>

\* The record being written, as the encoder writes it.
EncodedMeta == [kind |-> "meta", version |-> shipperMetaVersion1, shipped |-> meta]

\* Mutant: an encoding that failed half way is taken for a written file.
WriteTmp_IgnoresEncodeError ==
    /\ pc = "write"
    /\ \/ curTmp' = EncodedMeta /\ WriteGoes("w_remove")
       \/ curTmp' = Garbled /\ WriteGoes("w_remove")
       \/ FinishSync(FALSE) /\ UNCHANGED curTmp
    /\ ForgetBtd
    /\ UNCHANGED <<writeFrame, files, legTmp>>
    /\ UNCHANGED lifeVars
    /\ UNCHANGED closeVars
    /\ UNCHANGED snapVars
    /\ UNCHANGED seriesVars
    /\ UNCHANGED lockVars

\* writeShipperMetaFile, lines 310-327: create, encode and close the temporary
\* file. os.Create can fail and leave the file as it was; the encoding or the
\* close can fail and leave a truncated file.
WriteTmp ==
    /\ pc = "write"
    /\ \/ curTmp' = EncodedMeta /\ WriteGoes("w_remove")
       \/ curTmp' = Stale /\ FinishSync(FALSE)
       \/ FinishSync(FALSE) /\ UNCHANGED curTmp
    /\ ForgetBtd
    /\ UNCHANGED <<writeFrame, files, legTmp>>
    /\ UNCHANGED lifeVars
    /\ UNCHANGED closeVars
    /\ UNCHANGED snapVars
    /\ UNCHANGED seriesVars
    /\ UNCHANGED lockVars

\* renameFile, lines 409-411: os.RemoveAll(to).
WriteRemove ==
    /\ pc = "w_remove"
    /\ \/ curFile' = Absent /\ WriteGoes("w_rename") /\ UNCHANGED curTmp
       \/ FinishSync(FALSE) /\ UNCHANGED curFile /\ curTmp' = LeftBehind(curTmp)
    /\ ForgetBtd
    /\ UNCHANGED <<writeFrame, legFile, legTmp>>
    /\ UNCHANGED lifeVars
    /\ UNCHANGED closeVars
    /\ UNCHANGED snapVars
    /\ UNCHANGED seriesVars
    /\ UNCHANGED lockVars

\* the record read at the start written back instead of the new one
WriteRename_OldRecord ==
    /\ pc = "w_rename"
    /\ \/ /\ curFile' = [kind |-> "meta", version |-> shipperMetaVersion1,
                         shipped |-> [b \in DOMAIN shippedBlocks |->
                                         TimeFromUnixNano(shippedBlocks[b])]]
          /\ curTmp' = Absent
          /\ WriteGoes("l_write") \/ FinishSync(FALSE)
       \/ FinishSync(FALSE) /\ UNCHANGED curFile /\ curTmp' = LeftBehind(curTmp)
    /\ ForgetBtd
    /\ UNCHANGED <<writeFrame, legFile, legTmp>>
    /\ UNCHANGED lifeVars
    /\ UNCHANGED closeVars
    /\ UNCHANGED snapVars
    /\ UNCHANGED seriesVars
    /\ UNCHANGED lockVars

\* renameFile, lines 412-426: os.Rename moves the temporary file to the target,
\* then the parent directory is synced.
WriteRename ==
    /\ pc = "w_rename"
    /\ \/ /\ curFile' = curTmp
          /\ curTmp' = Absent
          /\ WriteGoes("l_write") \/ FinishSync(FALSE)
       \/ FinishSync(FALSE) /\ UNCHANGED curFile /\ curTmp' = LeftBehind(curTmp)
    /\ ForgetBtd
    /\ UNCHANGED <<writeFrame, legFile, legTmp>>
    /\ UNCHANGED lifeVars
    /\ UNCHANGED closeVars
    /\ UNCHANGED snapVars
    /\ UNCHANGED seriesVars
    /\ UNCHANGED lockVars

\* writeThanosShipperMetaFile, lines 349-366.
ThanosTmp ==
    /\ pc = "l_write"
    /\ \/ legTmp' = [kind |-> "thanos", version |-> shipperMetaVersion1,
                      uploaded |-> DOMAIN meta]
          /\ WriteGoes("l_remove")
       \/ legTmp' = Stale /\ FinishSync(FALSE)
       \/ FinishSync(FALSE) /\ UNCHANGED legTmp
    /\ ForgetBtd
    /\ UNCHANGED <<writeFrame, files, curTmp>>
    /\ UNCHANGED lifeVars
    /\ UNCHANGED closeVars
    /\ UNCHANGED snapVars
    /\ UNCHANGED seriesVars
    /\ UNCHANGED lockVars

\* renameFile for the legacy file: os.RemoveAll(to).
ThanosRemove ==
    /\ pc = "l_remove"
    /\ \/ legFile' = Absent /\ WriteGoes("l_rename") /\ UNCHANGED legTmp
       \/ FinishSync(FALSE) /\ UNCHANGED legFile /\ legTmp' = LeftBehind(legTmp)
    /\ ForgetBtd
    /\ UNCHANGED <<writeFrame, curFile, curTmp>>
    /\ UNCHANGED lifeVars
    /\ UNCHANGED closeVars
    /\ UNCHANGED snapVars
    /\ UNCHANGED seriesVars
    /\ UNCHANGED lockVars

\* the legacy list built from the blocks shipped in this pass only
ThanosRename_OnlyNew ==
    /\ pc = "l_rename"
    /\ \/ /\ legFile' = [kind |-> "thanos", version |-> shipperMetaVersion1,
                         uploaded |-> DOMAIN meta \ DOMAIN shippedBlocks]
          /\ legTmp' = Absent
          /\ \E synced \in BOOLEAN : FinishSync(synced)
       \/ FinishSync(FALSE) /\ UNCHANGED legFile /\ legTmp' = LeftBehind(legTmp)
    /\ ForgetBtd
    /\ UNCHANGED <<writeFrame, curFile, curTmp>>
    /\ UNCHANGED lifeVars
    /\ UNCHANGED closeVars
    /\ UNCHANGED snapVars
    /\ UNCHANGED seriesVars
    /\ UNCHANGED lockVars

\* renameFile for the legacy file: os.Rename, then sync the parent directory.
ThanosRename ==
    /\ pc = "l_rename"
    /\ \/ /\ legFile' = legTmp
          /\ legTmp' = Absent
          /\ \E synced \in BOOLEAN : FinishSync(synced)
       \/ FinishSync(FALSE) /\ UNCHANGED legFile /\ legTmp' = LeftBehind(legTmp)
    /\ ForgetBtd
    /\ UNCHANGED <<writeFrame, curFile, curTmp>>
    /\ UNCHANGED lifeVars
    /\ UNCHANGED closeVars
    /\ UNCHANGED snapVars
    /\ UNCHANGED seriesVars
    /\ UNCHANGED lockVars

\* ------------------------------------------------- shipped-block cache
\* getCachedShippedBlocks
getCachedShippedBlocks == IF HeadNotNil THEN {} ELSE u_shippedBlocks

\* Mutant: the meta files are read whether or not the tenant is head-only.
updateCachedShippedBlocks_NoHeadCheck ==
    /\ LET r == readShippedBlocks(curFile, legFile, now) IN
            /\ u_shippedBlocks' = IF r.err THEN u_shippedBlocks ELSE DOMAIN r.blocks
            /\ ret' = [kind |-> "updateCachedShippedBlocks", err |-> r.err]
    /\ calls' = IF pc = "idle" THEN << >> ELSE calls
    /\ ForgetBtd
    /\ UNCHANGED <<mode, now, blockMeta, local, remote, files, pc, syncLocals,
                   uploadCount, runVars>>
    /\ UNCHANGED lifeVars
    /\ UNCHANGED tmpFiles
    /\ UNCHANGED closeVars
    /\ UNCHANGED snapVars
    /\ UNCHANGED seriesVars
    /\ UNCHANGED lockVars

\* updateCachedShippedBlocks: replaces the snapshot by the record read from disk;
\* a no-op in head-only mode, and the snapshot is kept when the read fails, whose
\* error is returned (ret.err: the returned error is not nil).
updateCachedShippedBlocks ==
    /\ IF HeadNotNil
       THEN /\ UNCHANGED u_shippedBlocks
            /\ ret' = [kind |-> "updateCachedShippedBlocks", err |-> FALSE]
       ELSE LET r == readShippedBlocks(curFile, legFile, now) IN
            /\ u_shippedBlocks' = IF r.err THEN u_shippedBlocks ELSE DOMAIN r.blocks
            /\ ret' = [kind |-> "updateCachedShippedBlocks", err |-> r.err]
    /\ calls' = IF pc = "idle" THEN << >> ELSE calls
    /\ ForgetBtd
    /\ UNCHANGED <<mode, now, blockMeta, local, remote, files, pc, syncLocals,
                   uploadCount, runVars>>
    /\ UNCHANGED lifeVars
    /\ UNCHANGED tmpFiles
    /\ UNCHANGED closeVars
    /\ UNCHANGED snapVars
    /\ UNCHANGED seriesVars
    /\ UNCHANGED lockVars

\* blocksToDelete with the shipped filter left out.
blocksToDeleteResult_Unfiltered(d) == IF DbNil THEN {} ELSE d
\* blocksToDelete: what it returns when tsdb.DefaultBlocksToDelete returns d.
blocksToDeleteResult(d) ==
    IF DbNil THEN {}
    ELSE IF ShipperNil THEN d
    ELSE {shippedID \in getCachedShippedBlocks : shippedID \in d}

\* blocksToDelete(blocks), blocks being the blocks the storage engine has loaded
\* and d the subset of them tsdb.DefaultBlocksToDelete chooses.
blocksToDelete ==
    /\ \E d \in SUBSET local :
          /\ deletable' = (IF DbNil THEN {} ELSE d)
          /\ toDelete' = blocksToDeleteResult(d)
    /\ ForgetRet
    /\ UNCHANGED <<mode, now, blockMeta, local, remote, files, u_shippedBlocks, pc,
                   syncLocals, uploadCount, runVars>>
    /\ UNCHANGED lifeVars
    /\ UNCHANGED tmpFiles
    /\ UNCHANGED closeVars
    /\ UNCHANGED snapVars
    /\ UNCHANGED seriesVars
    /\ UNCHANGED lockVars

\* ------------------------------------------------------- environment
\* Time passes.
Tick ==
    /\ now < MaxNow
    /\ now' = now + 1
    /\ ForgetRet
    /\ ForgetBtd
    /\ UNCHANGED <<mode, blockMeta, local, remote, files, u_shippedBlocks, pc,
                   syncLocals, uploadCount, runVars>>
    /\ UNCHANGED lifeVars
    /\ UNCHANGED tmpFiles
    /\ UNCHANGED closeVars
    /\ UNCHANGED snapVars
    /\ UNCHANGED seriesVars
    /\ UNCHANGED lockVars

\* The storage engine compacts the head (or blocks) into a new block directory.
NewBlock ==
    /\ ~DbNil
    /\ \E b \in BlockIDs :
          /\ blockMeta[b] = NoMeta
          /\ \A c \in BlockIDs : c < b => blockMeta[c] # NoMeta
          /\ \E p \in Profiles : blockMeta' = [blockMeta EXCEPT ![b] = p]
          /\ local' = local \cup {b}
    /\ lastRun' = IF pc # "idle" THEN "tainted" ELSE "none"
    /\ prevRun' = "none"
    /\ UNCHANGED disturbed
    /\ ForgetRet
    /\ ForgetBtd
    /\ UNCHANGED <<mode, now, remote, files, u_shippedBlocks, pc, syncLocals, uploadCount>>
    /\ UNCHANGED lifeVars
    /\ UNCHANGED tmpFiles
    /\ UNCHANGED closeVars
    /\ UNCHANGED snapVars
    /\ UNCHANGED seriesVars
    /\ UNCHANGED lockVars

\* The storage engine removes the blocks blocksToDelete has just returned to it.
DeleteBlocks ==
    /\ toDelete \cap local # {}
    /\ local' = local \ toDelete
    /\ ForgetRet
    /\ ForgetBtd
    /\ UNCHANGED <<mode, now, blockMeta, remote, files, u_shippedBlocks, pc,
                   syncLocals, uploadCount, runVars>>
    /\ UNCHANGED lifeVars
    /\ UNCHANGED tmpFiles
    /\ UNCHANGED closeVars
    /\ UNCHANGED snapVars
    /\ UNCHANGED seriesVars
    /\ UNCHANGED lockVars

Damaged(f, kind, how) ==
    CASE how = "remove" -> Absent
      [] how = "garble" -> Garbled
      [] how = "version" -> OtherVersion(kind)

\* A meta file is lost, becomes unparseable or is replaced by one of another version.
DamageRecord ==
    /\ ~DbNil
    /\ \E how \in {"remove", "garble", "version"} :
          \/ /\ curFile' = Damaged(curFile, "meta", how)
             /\ curFile' # curFile
             /\ UNCHANGED legFile
          \/ /\ legFile' = Damaged(legFile, "thanos", how)
             /\ legFile' # legFile
             /\ UNCHANGED curFile
    /\ lastRun' = IF lastRun = "clean" THEN "returned" ELSE lastRun
    /\ prevRun' = IF prevRun = "clean" THEN "returned" ELSE prevRun
    /\ disturbed' = (pc # "idle")
    /\ ForgetRet
    /\ ForgetBtd
    /\ UNCHANGED <<mode, now, blockMeta, local, remote, u_shippedBlocks, pc,
                   syncLocals, uploadCount>>
    /\ UNCHANGED lifeVars
    /\ UNCHANGED tmpFiles
    /\ UNCHANGED closeVars
    /\ UNCHANGED snapVars
    /\ UNCHANGED seriesVars
    /\ UNCHANGED lockVars

\* The process crashes and restarts: memory is lost, the directory and the bucket stay.
Crash ==
    /\ u_shippedBlocks' = {}
    /\ pc' = "idle"
    /\ shippedBlocks' = EmptyMap
    /\ metas' = << >>
    /\ idx' = 0
    /\ meta' = EmptyMap
    /\ shipped' = 0
    /\ uploadErrs' = 0
    /\ ret' = NoRet
    /\ calls' = << >>
    /\ ForgetBtd
    /\ lastRun' = IF lastRun \in {"running", "tainted"} THEN "none" ELSE lastRun
    /\ disturbed' = FALSE
    /\ UNCHANGED <<mode, now, blockMeta, local, remote, files, uploadCount, prevRun>>
    /\ curTmp' = LeftBehind(curTmp)
    /\ legTmp' = LeftBehind(legTmp)
    /\ UNCHANGED lifeVars
    /\ UNCHANGED closeVars
    /\ UNCHANGED snapVars
    /\ UNCHANGED seriesVars
    /\ UNCHANGED lockVars

\* ----------------------------------------------- lifecycle state machine
\* casState: its return value, and its effect on u.state.
\* Mutant: casState reports a swap whatever the state is.
casStateOk_Always(from) == state = state
casStateOk(from) == state = from
\* the swap made whatever the current state is
casState_Unconditional(from, to) == state' = to
casState(from, to) == state' = IF state = from THEN to ELSE state

NilError == "nil"
ErrNotActive ==
    "TSDB head cannot be compacted because it is not in active state (possibly being closed or blocks shipping in progress)"
ErrCompactHead == "CompactHead failed"

\* the closing state let through like the active ones
acquireAppendLockErr_ClosingAllowed(st) ==
    CASE st \in {active, activeShipping, closing} -> NilError
      [] st = forceCompacting -> "forced compaction in progress"
      [] OTHER -> "TSDB is not active"
\* acquireAppendLock: the switch on u.state.
acquireAppendLockErr(st) ==
    CASE st = active -> NilError
      [] st = activeShipping -> NilError
      [] st = forceCompacting -> "forced compaction in progress"
      [] st = closing -> "TSDB is closing"
      [] OTHER -> "TSDB is not active"

\* The ranges a compactHead call passed to CompactHead are observed until the
\* step after its return.
ForgetCompacted ==
    compacted' = [c \in Compactors |-> IF chPc[c] = "idle" THEN << >> ELSE compacted[c]]
Compacted(c, ranges) ==
    compacted' = [x \in Compactors |->
                    IF x = c THEN ranges
                    ELSE IF chPc[x] = "idle" THEN << >> ELSE compacted[x]]

\* acquireAppendLock, under the state read lock: no casState runs in between.
acquireAppendLock(p) ==
    /\ push[p] = "idle"
    /\ LET e == acquireAppendLockErr(state) IN
       /\ lret' = [kind |-> "acquireAppendLock", caller |-> p, err |-> e]
       /\ IF e = NilError
          THEN /\ pushesInFlight' = pushesInFlight + 1
               /\ push' = [push EXCEPT ![p] = "appending"]
          ELSE UNCHANGED <<pushesInFlight, push>>
    /\ ForgetCompacted
    /\ UNCHANGED <<state, chPc, chDur, chMin, chMax, shipping, closePc>>
    /\ UNCHANGED shipVars
    /\ UNCHANGED closeVars
    /\ UNCHANGED snapVars
    /\ UNCHANGED seriesVars
    /\ UNCHANGED lockVars

\* Mutant: the permit is given back without pushesInFlight.Done().
releaseAppendLock_NoDone(p) ==
    /\ push[p] = "appending"
    /\ UNCHANGED pushesInFlight
    /\ push' = [push EXCEPT ![p] = "idle"]
    /\ lret' = [kind |-> "releaseAppendLock", caller |-> p, err |-> NilError]
    /\ ForgetCompacted
    /\ UNCHANGED <<state, chPc, chDur, chMin, chMax, shipping, closePc>>
    /\ UNCHANGED shipVars
    /\ UNCHANGED closeVars
    /\ UNCHANGED snapVars
    /\ UNCHANGED seriesVars
    /\ UNCHANGED lockVars

\* releaseAppendLock, called by the push request that holds a permit.
releaseAppendLock(p) ==
    /\ push[p] = "appending"
    /\ pushesInFlight' = pushesInFlight - 1
    /\ push' = [push EXCEPT ![p] = "idle"]
    /\ lret' = [kind |-> "releaseAppendLock", caller |-> p, err |-> NilError]
    /\ ForgetCompacted
    /\ UNCHANGED <<state, chPc, chDur, chMin, chMax, shipping, closePc>>
    /\ UNCHANGED shipVars
    /\ UNCHANGED closeVars
    /\ UNCHANGED snapVars
    /\ UNCHANGED seriesVars
    /\ UNCHANGED lockVars

\* Go's integer division truncates toward zero.
GoDiv(a, b) == IF a >= 0 THEN a \div b ELSE 0 - ((0 - a) \div b)
\* (t/blockDuration)*blockDuration
alignedStart(t, d) == GoDiv(t, d) * d
\* the condition of compactHead's loop
spansWindows(mn, mx, d) == alignedStart(mn, d) # alignedStart(mx, d)
\* blockMaxTime := ((minTime/blockDuration)+1)*blockDuration - 1
blockMaxTime(mn, d) == (GoDiv(mn, d) + 1) * d - 1

\* the state restored on the success path only (no defer)
compactHeadReturn_NoRestoreOnError(c, e) ==
    /\ IF e = NilError THEN casState(forceCompacting, active) ELSE UNCHANGED state
    /\ chPc' = [chPc EXCEPT ![c] = "idle"]
    /\ lret' = [kind |-> "compactHead", caller |-> c, err |-> e]
    /\ chDur' = [chDur EXCEPT ![c] = 0]
    /\ chMin' = [chMin EXCEPT ![c] = 0]
    /\ chMax' = [chMax EXCEPT ![c] = 0]

\* compactHead returns e; its deferred casState(forceCompacting, active) runs.
compactHeadReturn(c, e) ==
    /\ casState(forceCompacting, active)
    /\ chPc' = [chPc EXCEPT ![c] = "idle"]
    /\ lret' = [kind |-> "compactHead", caller |-> c, err |-> e]
    /\ chDur' = [chDur EXCEPT ![c] = 0]
    /\ chMin' = [chMin EXCEPT ![c] = 0]
    /\ chMax' = [chMax EXCEPT ![c] = 0]

\* the result of casState(active, forceCompacting) ignored
compactHeadBegin_NoCheck(c) ==
    /\ chPc[c] = "idle"
    /\ \E d \in BlockDurations :
          IF HeadNotNil
          THEN /\ lret' = [kind |-> "compactHead", caller |-> c, err |-> NilError]
               /\ ForgetCompacted
               /\ UNCHANGED <<state, chPc, chDur>>
          ELSE /\ casState(active, forceCompacting)
               /\ chPc' = [chPc EXCEPT ![c] = "wait"]
               /\ chDur' = [chDur EXCEPT ![c] = d]
               /\ Compacted(c, << >>)
               /\ lret' = NoRet
    /\ UNCHANGED <<pushesInFlight, push, chMin, chMax, shipping, closePc>>
    /\ UNCHANGED shipVars
    /\ UNCHANGED closeVars
    /\ UNCHANGED snapVars
    /\ UNCHANGED seriesVars
    /\ UNCHANGED lockVars

\* compactHead, lines 212-220: head-only check and the transition to forceCompacting.
compactHeadBegin(c) ==
    /\ chPc[c] = "idle"
    /\ \E d \in BlockDurations :
          IF HeadNotNil
          THEN /\ lret' = [kind |-> "compactHead", caller |-> c, err |-> NilError]
               /\ ForgetCompacted
               /\ UNCHANGED <<state, chPc, chDur>>
          ELSE /\ casState(active, forceCompacting)
               /\ IF casStateOk(active)
                  THEN /\ chPc' = [chPc EXCEPT ![c] = "wait"]
                       /\ chDur' = [chDur EXCEPT ![c] = d]
                       /\ Compacted(c, << >>)
                       /\ lret' = NoRet
                  ELSE /\ lret' = [kind |-> "compactHead", caller |-> c, err |-> ErrNotActive]
                       /\ ForgetCompacted
                       /\ UNCHANGED <<chPc, chDur>>
    /\ UNCHANGED <<pushesInFlight, push, chMin, chMax, shipping, closePc>>
    /\ UNCHANGED shipVars
    /\ UNCHANGED closeVars
    /\ UNCHANGED snapVars
    /\ UNCHANGED seriesVars
    /\ UNCHANGED lockVars

\* the head is read without waiting for the pushes in flight
compactHeadWait_NoDrain(c) ==
    /\ chPc[c] = "wait"
    /\ \E mn, mx \in HeadTimes :
          /\ mn <= mx
          /\ chMin' = [chMin EXCEPT ![c] = mn]
          /\ chMax' = [chMax EXCEPT ![c] = mx]
          /\ chPc' = [chPc EXCEPT ![c] = IF spansWindows(mn, mx, chDur[c]) THEN "loop" ELSE "last"]
    /\ lret' = NoRet
    /\ ForgetCompacted
    /\ UNCHANGED <<state, pushesInFlight, push, chDur, shipping, closePc>>
    /\ UNCHANGED shipVars
    /\ UNCHANGED closeVars
    /\ UNCHANGED snapVars
    /\ UNCHANGED seriesVars
    /\ UNCHANGED lockVars

\* lines 225-229: pushesInFlight.Wait() returns, the head's time range is read.
compactHeadWait(c) ==
    /\ chPc[c] = "wait"
    /\ pushesInFlight = 0
    /\ \E mn, mx \in HeadTimes :
          /\ mn <= mx
          /\ chMin' = [chMin EXCEPT ![c] = mn]
          /\ chMax' = [chMax EXCEPT ![c] = mx]
          /\ chPc' = [chPc EXCEPT ![c] = IF spansWindows(mn, mx, chDur[c]) THEN "loop" ELSE "last"]
    /\ lret' = NoRet
    /\ ForgetCompacted
    /\ UNCHANGED <<state, pushesInFlight, push, chDur, shipping, closePc>>
    /\ UNCHANGED shipVars
    /\ UNCHANGED closeVars
    /\ UNCHANGED snapVars
    /\ UNCHANGED seriesVars
    /\ UNCHANGED lockVars

\* lines 231-241: one round of the loop. CompactHead fails, or it compacts
\* [minTime, blockMaxTime] and the head's range is read again: what is left
\* starts after the compacted range.
compactHeadLoop(c) ==
    /\ chPc[c] = "loop"
    /\ LET bmt == blockMaxTime(chMin[c], chDur[c])
           top == IF chMax[c] > bmt THEN chMax[c] ELSE bmt + 1
       IN
       /\ Compacted(c, Append(compacted[c], <<chMin[c], bmt>>))
       /\ \/ compactHeadReturn(c, ErrCompactHead)
          \/ /\ \E mn \in (bmt + 1)..top :
                   /\ chMin' = [chMin EXCEPT ![c] = mn]
                   /\ chMax' = [chMax EXCEPT ![c] = top]
                   /\ chPc' = [chPc EXCEPT ![c] =
                                  IF spansWindows(mn, top, chDur[c]) THEN "loop" ELSE "last"]
             /\ lret' = NoRet
             /\ UNCHANGED <<state, chDur>>
    /\ UNCHANGED <<pushesInFlight, push, shipping, closePc>>
    /\ UNCHANGED shipVars
    /\ UNCHANGED closeVars
    /\ UNCHANGED snapVars
    /\ UNCHANGED seriesVars
    /\ UNCHANGED lockVars

\* line 243: the last CompactHead call, whose error (or nil) is returned.
compactHeadLast(c) ==
    /\ chPc[c] = "last"
    /\ Compacted(c, Append(compacted[c], <<chMin[c], chMax[c]>>))
    /\ \E e \in {NilError, ErrCompactHead} : compactHeadReturn(c, e)
    /\ UNCHANGED <<pushesInFlight, push, shipping, closePc>>
    /\ UNCHANGED shipVars
    /\ UNCHANGED closeVars
    /\ UNCHANGED snapVars
    /\ UNCHANGED seriesVars
    /\ UNCHANGED lockVars

\* A shipping pass begins: active -> activeShipping.
beginShipping ==
    /\ ~shipping
    /\ casState(active, activeShipping)
    /\ shipping' = casStateOk(active)
    /\ lret' = NoRet
    /\ ForgetCompacted
    /\ UNCHANGED <<pushesInFlight, push, chPc, chDur, chMin, chMax, closePc>>
    /\ UNCHANGED shipVars
    /\ UNCHANGED closeVars
    /\ UNCHANGED snapVars
    /\ UNCHANGED seriesVars
    /\ UNCHANGED lockVars

\* The shipping pass completes: activeShipping -> active.
endShipping ==
    /\ shipping
    /\ casState(activeShipping, active)
    /\ shipping' = FALSE
    /\ lret' = [kind |-> "endShipping", swapped |-> casStateOk(activeShipping)]
    /\ ForgetCompacted
    /\ UNCHANGED <<pushesInFlight, push, chPc, chDur, chMin, chMax, closePc>>
    /\ UNCHANGED shipVars
    /\ UNCHANGED closeVars
    /\ UNCHANGED snapVars
    /\ UNCHANGED seriesVars
    /\ UNCHANGED lockVars

\* The shutdown sequence begins: active|activeShipping -> closing. An attempt
\* that finds another state (a racing idle check among them) leaves it alone.
beginClosing ==
    /\ \E from \in {active, activeShipping} :
          /\ casState(from, closing)
          /\ closePc' = IF casStateOk(from) THEN "drain" ELSE closePc
          /\ lret' = [kind |-> "beginClosing", swapped |-> casStateOk(from)]
    /\ ForgetCompacted
    /\ UNCHANGED <<pushesInFlight, push, chPc, chDur, chMin, chMax, shipping>>
    /\ UNCHANGED shipVars
    /\ UNCHANGED closeVars
    /\ UNCHANGED snapVars
    /\ UNCHANGED seriesVars
    /\ UNCHANGED lockVars

\* The shutdown sequence ends once the pushes in flight are gone: closing -> closed.
finishClosing ==
    /\ closePc = "drain"
    /\ pushesInFlight = 0
    /\ casState(closing, closed)
    /\ closePc' = "done"
    /\ lret' = NoRet
    /\ ForgetCompacted
    /\ UNCHANGED <<pushesInFlight, push, chPc, chDur, chMin, chMax, shipping>>
    /\ UNCHANGED shipVars
    /\ UNCHANGED closeVars
    /\ UNCHANGED snapVars
    /\ UNCHANGED seriesVars
    /\ UNCHANGED lockVars

\* The tenant store's lifecycle: push requests, compactHead calls, shipping
\* passes and the shutdown sequence, interleaved.
NextLifecycle ==
    \/ \E p \in Pushers : acquireAppendLock(p) \/ releaseAppendLock(p)
    \/ \E c \in Compactors :
          compactHeadBegin(c) \/ compactHeadWait(c) \/ compactHeadLoop(c) \/ compactHeadLast(c)
    \/ beginShipping \/ endShipping
    \/ beginClosing \/ finishClosing

SpecLifecycle == Init /\ [][NextLifecycle]_vars

\* The same, where every push request that holds a permit gives it back in the
\* end, and every step of a compactHead call that can be taken is taken in the
\* end (pushesInFlight.Wait returns once the counter is 0, CompactHead returns).
SpecLifecycleFair ==
    /\ SpecLifecycle
    /\ \A p \in Pushers : WF_vars(releaseAppendLock(p))
    /\ \A c \in Compactors :
          WF_vars(compactHeadWait(c) \/ compactHeadLoop(c) \/ compactHeadLast(c))

\* The shipper: Sync passes over a directory that gains blocks, with the clock
\* running, the meta files getting damaged and the process crashing.
Next ==
    \/ SyncStart \/ SyncListFails
    \/ SyncCarry \/ SyncSkipEmpty \/ SyncSkipLevel
    \/ SyncExistsErr \/ SyncExistsTrue \/ SyncUploadFails \/ SyncUploadOk
    \/ WriteTmp \/ WriteRemove \/ WriteRename
    \/ ThanosTmp \/ ThanosRemove \/ ThanosRename
    \/ Tick \/ NewBlock \/ DamageRecord \/ Crash

Spec == Init /\ [][Next]_vars

\* The shipper together with the tenant store: Sync passes, cache refreshes,
\* blocksToDelete calls, the local deletions that follow them, and crashes.
NextStore ==
    \/ SyncStart \/ SyncListFails
    \/ SyncCarry \/ SyncSkipEmpty \/ SyncSkipLevel
    \/ SyncExistsErr \/ SyncExistsTrue \/ SyncUploadFails \/ SyncUploadOk
    \/ WriteTmp \/ WriteRemove \/ WriteRename
    \/ ThanosTmp \/ ThanosRemove \/ ThanosRename
    \/ updateCachedShippedBlocks
    \/ blocksToDelete
    \/ NewBlock \/ DeleteBlocks \/ Crash

SpecStore == Init /\ [][NextStore]_vars

\* The shipper and the cache refresh over meta files that get damaged: Sync
\* passes, cache refreshes, new blocks, and files lost, garbled or replaced.
NextRecord ==
    \/ SyncStart \/ SyncListFails
    \/ SyncCarry \/ SyncSkipEmpty \/ SyncSkipLevel
    \/ SyncExistsErr \/ SyncExistsTrue \/ SyncUploadFails \/ SyncUploadOk
    \/ WriteTmp \/ WriteRemove \/ WriteRename
    \/ ThanosTmp \/ ThanosRemove \/ ThanosRename
    \/ updateCachedShippedBlocks
    \/ NewBlock \/ DamageRecord

SpecRecord == Init /\ [][NextRecord]_vars

\* ================================================================ claims
\* Block IDs a meta file yields when read.
ShippedIn(cur) == DOMAIN readShipperMetaFile(cur).shipped
UploadedIn(leg) == readThanosShipperMetaFile(leg).uploaded

Returned == ret.kind = "returned"
CallIs(i, op, res) == calls[i].op = op /\ calls[i].res = res
\* Blocks of the pass by what happened to them.
UploadedOk == {calls[i].block : i \in {j \in DOMAIN calls : CallIs(j, "Upload", "ok")}}
UploadFailed == {calls[i].block : i \in {j \in DOMAIN calls : CallIs(j, "Upload", "failed")}}
FoundRemote == {calls[i].block : i \in {j \in DOMAIN calls : CallIs(j, "Exists", "true")}}
ExistsErred == \E i \in DOMAIN calls : CallIs(i, "Exists", "err")

\* C1: with shipping enabled and starting from an empty record, every block ID
\* blocksToDelete returns is a block whose meta object is in the bucket, under any
\* interleaving of Sync passes, cache refreshes, crashes and blocksToDelete calls.
C1_DeletableOnlyAfterUpload ==
    mode = "blocks_shipping" => toDelete \subseteq remote

\* C1 witness: blocksToDelete has returned an uploaded block while another local
\* block, deletable for the storage engine, is not uploaded and is held back.
C1_Witness ==
    /\ mode = "blocks_shipping"
    /\ toDelete # {}
    /\ (deletable \ toDelete) \ remote # {}

\* C2 as claimed: for every tenant store, what blocksToDelete returns is in the
\* storage engine's deletable set and in the cached shippedBlocks snapshot.
C2_Original ==
    toDelete \subseteq (deletable \cap u_shippedBlocks)

\* C2 amended: for every tenant store that has a shipper, what blocksToDelete
\* returns is in the storage engine's deletable set and in the cached snapshot.
C2_DeletableAndShipped ==
    ~ShipperNil => toDelete \subseteq (deletable \cap u_shippedBlocks)

\* C2 witness: a call returned a block and held back a deletable block that is
\* not in the snapshot.
C2_Witness ==
    /\ ~ShipperNil
    /\ toDelete # {}
    /\ deletable \ u_shippedBlocks # {}

\* C3: no block is uploaded successfully more than once, and Upload is invoked
\* for a block only when it is absent from the previously shipped set and
\* bucket.Exists has just returned false for it.
C3_UploadedAtMostOnce ==
    /\ \A b \in BlockIDs : uploadCount[b] <= 1
    /\ \A i \in DOMAIN calls :
          calls[i].op = "Upload" =>
             /\ i > 1
             /\ calls[i - 1].op = "Exists"
             /\ calls[i - 1].block = calls[i].block
             /\ calls[i - 1].res = "false"
             /\ pc # "idle" => calls[i].block \notin DOMAIN shippedBlocks

\* C3 witness: a pass that started from an unreadable or missing record meets a
\* block that an earlier pass uploaded, and does not upload it again.
C3_Witness ==
    \E i \in DOMAIN calls :
       /\ CallIs(i, "Exists", "true")
       /\ uploadCount[calls[i].block] = 1
       /\ pc # "idle"
       /\ shippedBlocks = EmptyMap

\* What C4 says of the pass itself: a block found in the bucket is not uploaded,
\* is in the new record with the time of its examination, and is counted.
C4_RecordedNotUploaded ==
    \A i \in DOMAIN calls :
       CallIs(i, "Exists", "true") =>
          /\ ~\E j \in DOMAIN calls : calls[j].op = "Upload" /\ calls[j].block = calls[i].block
          /\ pc # "idle" =>
                /\ calls[i].block \in DOMAIN meta
                /\ meta[calls[i].block] = calls[i].at
                /\ shipped = Cardinality(FoundRemote) + Cardinality(UploadedOk)

\* C4 as claimed: an eligible block that is not in the previously shipped set but
\* whose meta object is in the bucket when Sync examines it is not uploaded, is
\* recorded in the new record with the current time, and is counted in the
\* shippedCount Sync returns.
C4_Original ==
    /\ C4_RecordedNotUploaded
    /\ Returned => ret.shipped >= Cardinality(FoundRemote)

\* C4 amended: such a block is not uploaded, is recorded in the new record with
\* the current time and is counted; the count is the shippedCount Sync returns
\* unless a later existence check of the pass fails (Sync then returns 0).
C4_FoundRemoteIsCounted ==
    /\ C4_RecordedNotUploaded
    /\ (Returned /\ ~ExistsErred) => ret.shipped >= Cardinality(FoundRemote)

\* C4 witness: a pass found a block in the bucket at a time other than 0, did not
\* upload it and returned a count that includes it.
C4_Witness ==
    /\ Returned
    /\ ~ExistsErred
    /\ ret.shipped >= 1
    /\ \E i \in DOMAIN calls : CallIs(i, "Exists", "true") /\ calls[i].at > 0

\* C5 as claimed: of two Sync runs with no new local block in between (the bucket
\* is changed by Sync alone), the second returns shippedCount 0; stated here for
\* a first run that was not aborted.
C5_Original ==
    (Returned /\ prevRun \in {"returned", "clean"}) => ret.shipped = 0

\* C5 amended: the second run returns shippedCount 0 when the first run returned
\* a nil error and wrote its record, and the meta files were left alone since.
C5_SecondSyncShipsNothing ==
    (Returned /\ prevRun = "clean") => ret.shipped = 0

\* C5 witness: a second run over a record that lists a shipped block returns 0, nil.
C5_Witness ==
    /\ Returned
    /\ prevRun = "clean"
    /\ ret.shipped = 0
    /\ ret.err = NilErr
    /\ ShippedIn(curFile) \cap local # {}

C6_Counts == ret.shipped = Cardinality(UploadedOk \cup FoundRemote)
C6_Err ==
    IF UploadFailed = {} THEN ret.err = NilErr
    ELSE ret.err = ErrFailedToSync(Cardinality(UploadFailed))
C6_RecordHas == (UploadedOk \cup FoundRemote) \subseteq (ShippedIn(curFile) \cap UploadedIn(legFile))
C6_RecordLacks == UploadFailed \cap (ShippedIn(curFile) \cup UploadedIn(legFile)) = {}

\* C6 as claimed: in a pass where no existence check errors, shippedCount is the
\* number of blocks uploaded or found in the bucket, the error is non-nil and
\* names the number of failed uploads exactly when an upload failed, and the
\* persisted record holds every success and none of the failed blocks; stated
\* here for a pass whose block listing succeeded.
C6_Original ==
    (Returned /\ ~ExistsErred /\ ret.err # ErrReadDir) =>
       C6_Counts /\ C6_Err /\ C6_RecordHas /\ C6_RecordLacks

\* C6 amended: the same, the persisted record holding every success when
\* writeShipperMetaFile succeeded.
C6_PartialFailureIsolated ==
    (Returned /\ ~ExistsErred /\ ret.err # ErrReadDir) =>
       /\ C6_Counts
       /\ C6_Err
       /\ ret.persisted => C6_RecordHas
       /\ C6_RecordLacks

\* C6 witness: an upload failed, a later block of the same pass was uploaded, and
\* Sync returned 1 with an error naming 1 failure and a record of the later block.
C6_Witness ==
    /\ Returned
    /\ ret.persisted
    /\ ret.shipped = 1
    /\ ret.err = ErrFailedToSync(1)
    /\ \E i, j \in DOMAIN calls :
          /\ i < j
          /\ CallIs(i, "Upload", "failed")
          /\ CallIs(j, "Upload", "ok")
          /\ ShippedIn(curFile) = {calls[j].block}

\* C7 as claimed: after any Sync call returns, every block whose upload succeeded
\* during the call is in the persisted record, in both formats.
C7_Original ==
    Returned => UploadedOk \subseteq (ShippedIn(curFile) \cap UploadedIn(legFile))

\* C7 amended: so it is after a Sync call that reached the persist step and whose
\* writeShipperMetaFile succeeded, whatever happened to the other blocks.
C7_ProgressPersisted ==
    (Returned /\ ret.persisted) =>
       UploadedOk \subseteq (ShippedIn(curFile) \cap UploadedIn(legFile))

\* C7 witness: a pass with a failed upload and a successful one has returned with
\* its record written.
C7_Witness ==
    /\ Returned
    /\ ret.persisted
    /\ UploadedOk # {}
    /\ UploadFailed # {}
    /\ UploadedOk \subseteq (ShippedIn(curFile) \cap UploadedIn(legFile))

C8_AbortsOnExistsErr ==
    \A i \in DOMAIN calls :
       CallIs(i, "Exists", "err") =>
          /\ i = Len(calls)
          /\ pc = "idle"
          /\ Returned
          /\ ret.shipped = 0
          /\ ret.err = ErrCheckExists
C8_GoesOnAfterUploadFailure ==
    (/\ Len(calls') = Len(calls) + 2
     /\ calls'[Len(calls')].op = "Upload"
     /\ calls'[Len(calls')].res = "failed")
    => /\ ret' = NoRet
       /\ metas' = metas
       /\ idx' = idx + 1
       /\ pc' = IF idx' > Len(metas) THEN "write" ELSE "loop"

\* C8: when bucket.Exists returns an error Sync stops at that block, makes no
\* further bucket call and returns 0 with the wrapped error; a failed upload does
\* not abort the pass, which goes on to the next block or to the persist step.
C8_ExistsErrorAborts ==
    [](C8_AbortsOnExistsErr) /\ [][C8_GoesOnAfterUploadFailure]_vars

\* C8 witness: a block was uploaded, the existence check of the next one failed,
\* and Sync returned 0 with the check-exists error.
C8_Witness ==
    /\ Returned
    /\ ret.err = ErrCheckExists
    /\ UploadedOk # {}
    /\ CallIs(Len(calls), "Exists", "err")

NoUploadCallFor(b) == ~\E i \in DOMAIN calls : calls[i].op = "Upload" /\ calls[i].block = b

\* C9: a local block with no samples is never uploaded and never appears in the
\* persisted record; a block of a compaction level above 1 is never uploaded.
C9_EmptyAndCompactedNotShipped ==
    \A b \in Created :
       /\ blockMeta[b].numSamples = 0 =>
             /\ uploadCount[b] = 0
             /\ NoUploadCallFor(b)
             /\ b \notin ShippedIn(curFile)
             /\ b \notin UploadedIn(legFile)
       /\ blockMeta[b].level > 1 =>
             /\ uploadCount[b] = 0
             /\ NoUploadCallFor(b)

\* C9 witness: a pass over an empty block and a block of level 2 has returned,
\* with its record written.
C9_Witness ==
    /\ Returned
    /\ lastRun = "clean"
    /\ \E b, c \in local : blockMeta[b].numSamples = 0 /\ blockMeta[c].level > 1

\* C10: within a pass the blocks are existence-checked and uploaded in
\* non-decreasing order of minTime, whatever order the listing returned.
C10_OldestFirst ==
    \A i, j \in DOMAIN calls :
       i < j => MinTime(calls[i].block) <= MinTime(calls[j].block)

\* C10 witness: a block created later but holding older data was examined first.
C10_Witness ==
    \E i, j \in DOMAIN calls :
       /\ i < j
       /\ MinTime(calls[i].block) < MinTime(calls[j].block)
       /\ calls[i].block > calls[j].block

\* ---------------------------------------------------------------- C11
\* What the two meta files hold, read off their contents.
UsableCurrent(cur) == cur.kind = "meta" /\ cur.version = shipperMetaVersion1
UsableLegacy(leg) == leg.kind = "thanos" /\ leg.version = shipperMetaVersion1
ExpectedIDs(cur, leg) ==
    IF UsableCurrent(cur) THEN DOMAIN cur.shipped
    ELSE IF UsableLegacy(leg) THEN leg.uploaded
    ELSE {}
\* The current file is unusable and the legacy file is there but corrupt or of
\* another version.
ReadFails(cur, leg) ==
    ~UsableCurrent(cur) /\ leg.kind # "absent" /\ ~UsableLegacy(leg)
CacheRefreshed == ret.kind = "updateCachedShippedBlocks"

RefreshStep ==
    ret'.kind = "updateCachedShippedBlocks" /\ pc' = pc /\ idx' = idx /\ ~HeadNotNil
C11_RefreshResult ==
    RefreshStep =>
       /\ ret'.err <=> ReadFails(curFile, legFile)
       /\ ~ret'.err => u_shippedBlocks' = ExpectedIDs(curFile, legFile)
       /\ ret'.err => u_shippedBlocks' = u_shippedBlocks
C11_SyncReadsOrStartsEmpty ==
    (pc = "idle" /\ pc' # "idle") =>
       DOMAIN shippedBlocks' = (IF ReadFails(curFile, legFile) THEN {}
                                ELSE ExpectedIDs(curFile, legFile))

CurrentWritten == pc \in {"l_write", "l_remove", "l_rename"} /\ ~disturbed

C13_LegacyListsTheRecord ==
    (Returned /\ ret.persisted) =>
       /\ UsableCurrent(curFile)
       /\ UsableLegacy(legFile)
       /\ legFile.uploaded = DOMAIN curFile.shipped
C13_LegacyOnlyRead ==
    (pc = "idle" /\ pc' # "idle" /\ curFile = Absent /\ UsableLegacy(legFile)) =>
       shippedBlocks' = [b \in legFile.uploaded |-> now]

\* C13: after a Sync pass whose writeShipperMetaFile succeeded the legacy file
\* lists exactly the keys of the current-format record of that pass, and a read
\* of a directory holding the legacy file only gives those block IDs, each with
\* the time of the read.
C13_LegacyMirrorsCurrent ==
    [](C13_LegacyListsTheRecord) /\ [][C13_LegacyOnlyRead]_vars

\* C13 witness: a pass has started, at a time other than 0, from the legacy file
\* alone and holds its blocks as shipped at that time.
C13_Witness ==
    /\ pc # "idle"
    /\ curFile = Absent
    /\ UsableLegacy(legFile)
    /\ now > 0
    /\ DOMAIN shippedBlocks = legFile.uploaded
    /\ \E b \in DOMAIN shippedBlocks : shippedBlocks[b] = now

\* ---------------------------------------------------------------- C14
C14_AcquireOutcome ==
    lret'.kind = "acquireAppendLock" =>
       /\ state' = state
       /\ IF state \in {active, activeShipping}
          THEN /\ lret'.err = NilError
               /\ pushesInFlight' = pushesInFlight + 1
          ELSE /\ pushesInFlight' = pushesInFlight
               /\ state = forceCompacting => lret'.err = "forced compaction in progress"
               /\ state = closing => lret'.err = "TSDB is closing"
               /\ state = closed => lret'.err = "TSDB is not active"
C14_IncrementOnlyWhenActive ==
    pushesInFlight' > pushesInFlight => state \in {active, activeShipping}

\* C14: acquireAppendLock succeeds exactly when the state is active or
\* activeShipping and then adds one to pushesInFlight under the lock; in every
\* other state it leaves pushesInFlight alone and returns the error naming the
\* state. pushesInFlight never grows while the state is forceCompacting, closing
\* or closed.
C14_AppendPermit ==
    [][C14_AcquireOutcome]_vars /\ [][C14_IncrementOnlyWhenActive]_vars

\* C14 witness: a second permit has been granted while a shipping pass runs.
C14_Witness ==
    /\ lret.kind = "acquireAppendLock"
    /\ lret.err = NilError
    /\ state = activeShipping
    /\ pushesInFlight = 2

\* ---------------------------------------------------------------- C15
\* A compactHead call is past its drain wait and has not returned.
Compacting(c) == chPc[c] \in {"loop", "last"}
PushesHeld == Cardinality({p \in Pushers : push[p] = "appending"})

C15_NoPushWhileCompacting ==
    \A c \in Compactors :
       Compacting(c) =>
          /\ state = forceCompacting
          /\ pushesInFlight = 0
          /\ PushesHeld = 0
C15_NoPermitWhileCompacting ==
    ((\E c \in Compactors : Compacting(c)) /\ lret'.kind = "acquireAppendLock")
       => lret'.err # NilError

\* C15: from the return of compactHead's drain wait until compactHead restores
\* the state, no push is in flight and no acquireAppendLock call succeeds,
\* under any interleaving of pushes, compactHead calls, shipping and shutdown.
C15_NoAppendDuringCompaction ==
    [](C15_NoPushWhileCompacting) /\ [][C15_NoPermitWhileCompacting]_vars

\* C15 witness: a push was turned away while a compactHead call is between
\* its first CompactHead call and its last.
C15_Witness ==
    \E c \in Compactors :
       /\ chPc[c] = "last"
       /\ Len(compacted[c]) = 1
       /\ lret.kind = "acquireAppendLock"
       /\ lret.err = "forced compaction in progress"

\* ---------------------------------------------------------------- C16
\* A compactHead call made in on-disk mode goes past its first lines only from
\* the active state.
C16_StartsOnlyFromActive ==
    \A c \in Compactors :
       (chPc[c] = "idle" /\ chPc'[c] # "idle") => (~HeadNotNil /\ state = active)
\* A compactHead call that returns from its first lines in on-disk mode found a
\* state other than active, returns the error, and changed nothing.
C16_RefusedAtOnce ==
    (lret'.kind = "compactHead" /\ chPc[lret'.caller] = "idle" /\ ~HeadNotNil) =>
       /\ state # active
       /\ lret'.err = ErrNotActive
       /\ state' = state
       /\ pushesInFlight' = pushesInFlight
       /\ chPc' = chPc
       /\ compacted'[lret'.caller] = << >>

\* C16: in on-disk mode a compactHead call that finds the state other than
\* active returns an error at once: it does not wait for the pushes, compacts
\* nothing and leaves the state as it is.
C16_CompactHeadRefused ==
    [][C16_StartsOnlyFromActive]_vars /\ [][C16_RefusedAtOnce]_vars

\* C16 witness: compactHead has returned its error during a shipping pass, with
\* a push in flight.
C16_Witness ==
    /\ lret.kind = "compactHead"
    /\ lret.err = ErrNotActive
    /\ state = activeShipping
    /\ pushesInFlight > 0

\* ---------------------------------------------------------------- C17
C17_ActiveAtReturn ==
    \A c \in Compactors :
       (chPc[c] \in {"wait", "loop", "last"} /\ chPc'[c] = "idle") =>
          /\ state = forceCompacting
          /\ state' = active
C17_ForceCompactingHasOwner ==
    state = forceCompacting => \E c \in Compactors : chPc[c] # "idle"

\* C17: a compactHead call that won the active -> forceCompacting transition
\* leaves the state active when it returns, whether CompactHead succeeded or
\* failed; the state is never forceCompacting with no compactHead call running.
C17_StateRestored ==
    [][C17_ActiveAtReturn]_vars /\ [](C17_ForceCompactingHasOwner)

\* C17 witness: compactHead has returned the error of its second CompactHead
\* call and the state is active.
C17_Witness ==
    /\ lret.kind = "compactHead"
    /\ lret.err = ErrCompactHead
    /\ Len(compacted[lret.caller]) = 2
    /\ state = active

\* ---------------------------------------------------------------- C18
C18_ClosingNotReverted ==
    state \in {closing, closed} => state' \notin {active, activeShipping, forceCompacting}
C18_ClosedIsTerminal ==
    state = closed => state' = closed

tsdbIdle == "idle"
tsdbNotIdle == "not_idle"
tsdbNotCompacted == "not_compacted"
tsdbNotShipped == "not_shipped"
tsdbTenantMarkedForDeletion == "tenant_marked_for_deletion"

\* tsdbCloseCheckResult.shouldClose
shouldClose(r) == r = tsdbIdle \/ r = tsdbTenantMarkedForDeletion

\* u.Blocks(): the blocks the database has loaded, nil without a database.
Blocks == IF HeadNotNil THEN {} ELSE local

\* b.Meta().ULID.Time(): the millisecond the block was created at. Block IDs
\* are creation-ordered and no block is created at the epoch itself.
ULIDTime(b) == b

\* The loop of getOldestUnshippedBlockTime over the blocks still to visit.
RECURSIVE oldestUnshippedFrom(_, _, _)
oldestUnshippedFrom(bs, shippedIDs, oldestTs) ==
    IF bs = {} THEN oldestTs
    ELSE LET b == CHOOSE x \in bs : \A y \in bs : x <= y
             next == IF b \in shippedIDs THEN oldestTs
                     ELSE IF oldestTs = 0 \/ ULIDTime(b) < oldestTs THEN ULIDTime(b)
                     ELSE oldestTs
         IN  oldestUnshippedFrom(bs \ {b}, shippedIDs, next)

\* Mutant: every block counts as shipped.
getOldestUnshippedBlockTime_AllShipped ==
    IF HeadNotNil THEN 0
    ELSE oldestUnshippedFrom(Blocks, BlockIDs, 0)

getOldestUnshippedBlockTime ==
    IF HeadNotNil THEN 0
    ELSE oldestUnshippedFrom(Blocks, getCachedShippedBlocks, 0)

\* Mutant: idle as soon as the timeout has run out, the instant itself included.
isIdle_NotAfter(t, idle) == lastUpdate * NanosPerSecond + idle <= t
\* time.Unix(lu, 0).Add(idle).Before(t)
isIdle(t, idle) == lastUpdate * NanosPerSecond + idle < t

\* Mutant: idleness is looked at before the deletion mark.
shouldCloseTSDB_IdleFirst(idleTimeout) ==
    IF ~isIdle(now, idleTimeout) THEN tsdbNotIdle
    ELSE IF deletionMarkFound THEN tsdbTenantMarkedForDeletion
    ELSE IF HeadNotNil THEN tsdbIdle
    ELSE IF headNumSeries > 0 THEN tsdbNotCompacted
    ELSE IF getOldestUnshippedBlockTime > 0 THEN tsdbNotShipped
    ELSE tsdbIdle

\* The result of shouldCloseTSDB(idleTimeout) called at time `now`.
shouldCloseTSDB(idleTimeout) ==
    IF deletionMarkFound THEN tsdbTenantMarkedForDeletion
    ELSE IF ~isIdle(now, idleTimeout) THEN tsdbNotIdle
    ELSE IF HeadNotNil THEN tsdbIdle
    ELSE IF headNumSeries > 0 THEN tsdbNotCompacted
    ELSE IF getOldestUnshippedBlockTime > 0 THEN tsdbNotShipped
    ELSE tsdbIdle

\* A call of shouldCloseTSDB: it reads, and changes nothing.
CheckClose ==
    /\ \E d \in IdleTimeouts :
          lret' = [kind |-> "shouldCloseTSDB", idleTimeout |-> d,
                   isIdle |-> isIdle(now, d), result |-> shouldCloseTSDB(d)]
    /\ UNCHANGED <<state, pushesInFlight, push, chPc, chDur, chMin, chMax, shipping,
                   closePc, compacted>>
    /\ UNCHANGED shipVars
    /\ UNCHANGED closeVars
    /\ UNCHANGED snapVars
    /\ UNCHANGED seriesVars
    /\ UNCHANGED lockVars

\* setLastUpdate(time.Now())
setLastUpdate ==
    /\ lastUpdate' = now \div NanosPerSecond
    /\ lret' = [kind |-> "setLastUpdate", t |-> now]
    /\ UNCHANGED <<deletionMarkFound, headNumSeries>>
    /\ UNCHANGED <<state, pushesInFlight, push, chPc, chDur, chMin, chMax, shipping,
                   closePc, compacted>>
    /\ UNCHANGED shipVars
    /\ UNCHANGED snapVars
    /\ UNCHANGED seriesVars
    /\ UNCHANGED lockVars

\* The tenants the decision is taken about: any mode, any blocks on disk, any
\* cache of shipped blocks (only blocks with samples and of level 1 are ever
\* shipped), with or without a deletion mark, last updated at some whole
\* second not after now.
InitClose ==
    /\ mode \in {"head_only", "blocks", "blocks_shipping"}
    /\ now \in 0..(2 * NanosPerSecond)
    /\ \E k \in 0..NumBlocks :
          /\ blockMeta \in [BlockIDs -> Profiles \cup {NoMeta}]
          /\ \A b \in BlockIDs : (blockMeta[b] # NoMeta) <=> (b <= k)
          /\ local \in SUBSET (1..k)
    /\ HeadNotNil => blockMeta = [b \in BlockIDs |-> NoMeta]
    /\ u_shippedBlocks \in SUBSET {b \in BlockIDs : blockMeta[b].numSamples > 0
                                                      /\ blockMeta[b].level = 1}
    /\ remote = {}
    /\ curFile = Absent
    /\ legFile = Absent
    /\ curTmp = Absent
    /\ legTmp = Absent
    /\ pc = "idle"
    /\ shippedBlocks = EmptyMap
    /\ metas = << >>
    /\ idx = 0
    /\ meta = EmptyMap
    /\ shipped = 0
    /\ uploadErrs = 0
    /\ ret = NoRet
    /\ calls = << >>
    /\ uploadCount = [b \in BlockIDs |-> 0]
    /\ deletable = {}
    /\ toDelete = {}
    /\ lastRun = "none"
    /\ prevRun = "none"
    /\ disturbed = FALSE
    /\ state = active
    /\ pushesInFlight = 0
    /\ push = [p \in Pushers |-> "idle"]
    /\ chPc = [c \in Compactors |-> "idle"]
    /\ chDur = [c \in Compactors |-> 0]
    /\ chMin = [c \in Compactors |-> 0]
    /\ chMax = [c \in Compactors |-> 0]
    /\ shipping = FALSE
    /\ closePc = "idle"
    /\ compacted = [c \in Compactors |-> << >>]
    /\ lret = NoRet
    /\ deletionMarkFound \in BOOLEAN
    /\ lastUpdate \in {s \in 0..2 : s * NanosPerSecond <= now}
    /\ headNumSeries \in {0, 1}
    /\ fresh = [r \in Refreshers |-> NoRet]
    /\ held = [r \in Readers |-> NoRet]
    /\ reads = {}
    /\ limiter = "set"
    /\ instanceLimits = 0 - 1
    /\ instanceSeriesCount = 0
    /\ seriesInMetric = [m \in MetricNames |-> 0]
    /\ headSeries = [l \in LabelSets |-> 0]
    /\ creating = [g \in Creators |-> "idle"]
    /\ stateMtx = [w |-> 0, r |-> {}]
    /\ shippedBlocksMtx = 0
    /\ locker = [t \in Lockers |-> [pc |-> "idle", got |-> {}]]

NextClose ==
    \/ CheckClose
    \/ setLastUpdate

SpecClose == InitClose /\ [][NextClose]_vars

\* ------------------------------------------------------------------ C19
\* The last call of shouldCloseTSDB, if nothing has happened since.
Checked == lret.kind = "shouldCloseTSDB"

\* C19: whenever deletionMarkFound is true, shouldCloseTSDB returns
\* tenant_marked_for_deletion, which is a closeable result, whatever
\* lastUpdate, the idle timeout, the mode, the number of head series and the
\* unshipped blocks are.
C19_DeletionMarkCloses ==
    (Checked /\ deletionMarkFound) =>
        /\ lret.result = tsdbTenantMarkedForDeletion
        /\ shouldClose(lret.result)

\* C19 witness: a tenant with a deletion mark, updated one second ago and
\* asked about with a longer idle timeout, on disk with series in its head
\* and a block that is not in the cache, is found closeable.
C19_Witness ==
    /\ Checked
    /\ deletionMarkFound
    /\ lastUpdate * NanosPerSecond + NanosPerSecond = now
    /\ lret.idleTimeout > NanosPerSecond
    /\ ~HeadNotNil
    /\ headNumSeries > 0
    /\ \E b \in local : b \notin u_shippedBlocks
    /\ shouldClose(lret.result)

\* ------------------------------------------------------------------ C20
\* lastUpdateTime + D < now, the tenant's idleness as the rules state it.
IdleFor(d) == lastUpdate * NanosPerSecond + d < now
SomeLocalBlockNotCached == \E b \in local : b \notin u_shippedBlocks

\* C20: with no deletion mark the result is not_idle when the tenant is not
\* idle; otherwise idle in head-only mode; otherwise not_compacted when the
\* head has a series; otherwise not_shipped when some local block is absent
\* from the shipped-block cache; otherwise idle. So an on-disk tenant is
\* closeable only if idle, with no head series and every local block cached.
C20_RulesInOrder ==
    (Checked /\ ~deletionMarkFound) =>
        /\ lret.result =
              (CASE ~IdleFor(lret.idleTimeout) -> tsdbNotIdle
                 [] IdleFor(lret.idleTimeout) /\ mode = "head_only" -> tsdbIdle
                 [] IdleFor(lret.idleTimeout) /\ mode # "head_only"
                       /\ headNumSeries >= 1 -> tsdbNotCompacted
                 [] IdleFor(lret.idleTimeout) /\ mode # "head_only"
                       /\ headNumSeries = 0 /\ SomeLocalBlockNotCached -> tsdbNotShipped
                 [] OTHER -> tsdbIdle)
        /\ (mode # "head_only" /\ shouldClose(lret.result)) =>
              /\ IdleFor(lret.idleTimeout)
              /\ headNumSeries = 0
              /\ local \subseteq u_shippedBlocks

\* C20 witness: an idle on-disk tenant with an empty head and a local block
\* that is not in the cache is refused with not_shipped.
C20_Witness ==
    /\ Checked
    /\ ~deletionMarkFound
    /\ IdleFor(lret.idleTimeout)
    /\ mode = "blocks_shipping"
    /\ headNumSeries = 0
    /\ u_shippedBlocks # {}
    /\ SomeLocalBlockNotCached
    /\ lret.result = tsdbNotShipped

\* ------------------------------------- the cache under concurrent access
\* What a refresh or a read leaves of the other variables alone.
snapFrame ==
    /\ UNCHANGED <<mode, now, blockMeta, local, remote, files, pc, syncLocals, ret, calls,
                   uploadCount, btdVars, runVars>>
    /\ UNCHANGED lifeVars
    /\ UNCHANGED tmpFiles
    /\ UNCHANGED closeVars
    /\ UNCHANGED seriesVars
    /\ UNCHANGED lockVars

\* updateCachedShippedBlocks up to the read of the current-format file: nil at
\* once in head-only mode; the map built from the file when it can be read;
\* otherwise the legacy file is read next.
refreshReadCurrent(r) ==
    /\ fresh[r] = NoRet
    /\ IF HeadNotNil
       THEN UNCHANGED <<fresh, reads>>
       ELSE LET m == readShipperMetaFile(curFile) IN
            IF m.err
            THEN /\ fresh' = [fresh EXCEPT ![r] = [kind |-> "fallback"]]
                 /\ UNCHANGED reads
            ELSE /\ fresh' = [fresh EXCEPT ![r] = [kind |-> "map", ids |-> DOMAIN m.shipped]]
                 /\ reads' = reads \cup {DOMAIN m.shipped}
    /\ UNCHANGED <<u_shippedBlocks, held>>
    /\ snapFrame

\* readThanosShippedBlocks: the read of the legacy file; its error is returned
\* by updateCachedShippedBlocks, which then stores nothing.
refreshReadLegacy(r) ==
    /\ fresh[r] = [kind |-> "fallback"]
    /\ LET m == readThanosShippedBlocks(legFile, now) IN
       IF m.err
       THEN /\ fresh' = [fresh EXCEPT ![r] = NoRet]
            /\ UNCHANGED reads
       ELSE /\ fresh' = [fresh EXCEPT ![r] = [kind |-> "map", ids |-> DOMAIN m.blocks]]
            /\ reads' = reads \cup {DOMAIN m.blocks}
    /\ UNCHANGED <<u_shippedBlocks, held>>
    /\ snapFrame

\* Mutant: the keys read are added to the map in place, one at a time.
refreshStore_InPlace(r) ==
    /\ fresh[r].kind = "map"
    /\ IF fresh[r].ids \subseteq u_shippedBlocks
       THEN /\ fresh' = [fresh EXCEPT ![r] = NoRet]
            /\ UNCHANGED <<u_shippedBlocks, held>>
       ELSE \E k \in fresh[r].ids \ u_shippedBlocks :
               /\ u_shippedBlocks' = u_shippedBlocks \cup {k}
               /\ held' = [rd \in Readers |->
                             IF held[rd].kind = "snap" /\ held[rd].cur
                             THEN [held[rd] EXCEPT !.obj = u_shippedBlocks \cup {k}]
                             ELSE held[rd]]
               /\ UNCHANGED fresh
    /\ UNCHANGED reads
    /\ snapFrame

\* Under shippedBlocksMtx: u.shippedBlocks = shippedBlocks. The map that was
\* there is left as it is with whoever holds it.
refreshStore(r) ==
    /\ fresh[r].kind = "map"
    /\ u_shippedBlocks' = fresh[r].ids
    /\ held' = [rd \in Readers |->
                  IF held[rd].kind = "snap" THEN [held[rd] EXCEPT !.cur = FALSE]
                  ELSE held[rd]]
    /\ fresh' = [fresh EXCEPT ![r] = NoRet]
    /\ UNCHANGED reads
    /\ snapFrame

\* getCachedShippedBlocks, under shippedBlocksMtx: the map itself is returned
\* (nil in head-only mode).
getSnapshot(rd) ==
    /\ held[rd] = NoRet
    /\ held' = [held EXCEPT ![rd] = [kind |-> "snap", seen |-> getCachedShippedBlocks,
                                     obj |-> getCachedShippedBlocks, cur |-> ~HeadNotNil]]
    /\ UNCHANGED <<u_shippedBlocks, fresh, reads>>
    /\ snapFrame

\* The reader lets go of the map it was given.
dropSnapshot(rd) ==
    /\ held[rd] # NoRet
    /\ held' = [held EXCEPT ![rd] = NoRet]
    /\ UNCHANGED <<u_shippedBlocks, fresh, reads>>
    /\ snapFrame

\* Sync passes and new blocks, with refreshes and readers of the cache running
\* alongside.
NextSnapshot ==
    \/ SyncStart \/ SyncListFails
    \/ SyncCarry \/ SyncSkipEmpty \/ SyncSkipLevel
    \/ SyncExistsErr \/ SyncExistsTrue \/ SyncUploadFails \/ SyncUploadOk
    \/ WriteTmp \/ WriteRemove \/ WriteRename
    \/ ThanosTmp \/ ThanosRemove \/ ThanosRename
    \/ NewBlock
    \/ \E r \in Refreshers : refreshReadCurrent(r) \/ refreshReadLegacy(r) \/ refreshStore(r)
    \/ \E rd \in Readers : getSnapshot(rd) \/ dropSnapshot(rd)

SpecSnapshot == Init /\ [][NextSnapshot]_vars

\* ------------------------------------------------------------------ C21
\* C21: every snapshot getCachedShippedBlocks has returned is the initial empty
\* value or the complete key set one completed read of the record produced,
\* and the map a reader holds still has exactly the keys it had when it was
\* returned, whatever refreshes have run since; the cache itself is never
\* anything else either.
C21_SnapshotsWholeAndFrozen ==
    /\ \A rd \in Readers :
          held[rd].kind = "snap" =>
             /\ held[rd].obj = held[rd].seen
             /\ held[rd].seen = {} \/ held[rd].seen \in reads
    /\ u_shippedBlocks = {} \/ u_shippedBlocks \in reads

\* C21 witness: a reader holds a non-empty snapshot that a later refresh has
\* replaced by a different set.
C21_Witness ==
    \E rd \in Readers :
       /\ held[rd].kind = "snap"
       /\ held[rd].seen # {}
       /\ ~held[rd].cur
       /\ u_shippedBlocks # held[rd].seen

\* --------------------------------------------- series admission callbacks
errMaxInMemorySeriesReached == "max in-memory series reached"
ErrMaxSeriesPerUser == "per-user series limit"
ErrNoMetricName == "no metric name"
ErrMaxSeriesPerMetric == "per-metric series limit"

\* Mutant: the tenant's limiter is asked before the instance limit is looked at.
preCreationResult_UserFirst(metric, userFails, metricFails) ==
    IF limiter = "nil" THEN [err |-> NilError, consulted |-> << >>]
    ELSE IF userFails
    THEN [err |-> ErrMaxSeriesPerUser, consulted |-> <<"user">>]
    ELSE IF instanceLimits > 0 /\ instanceSeriesCount >= instanceLimits
    THEN [err |-> errMaxInMemorySeriesReached, consulted |-> <<"user", "instance">>]
    ELSE IF metric = NoName
    THEN [err |-> ErrNoMetricName, consulted |-> <<"user", "instance">>]
    ELSE IF metricFails
    THEN [err |-> ErrMaxSeriesPerMetric, consulted |-> <<"user", "instance", "metric">>]
    ELSE [err |-> NilError, consulted |-> <<"user", "instance", "metric">>]

\* PreCreation: what it returns and which checks it has consulted, given what
\* AssertMaxSeriesPerUser and canAddSeriesFor answer when they are asked.
preCreationResult(metric, userFails, metricFails) ==
    IF limiter = "nil" THEN [err |-> NilError, consulted |-> << >>]
    ELSE IF instanceLimits > 0 /\ instanceSeriesCount >= instanceLimits
    THEN [err |-> errMaxInMemorySeriesReached, consulted |-> <<"instance">>]
    ELSE IF userFails
    THEN [err |-> ErrMaxSeriesPerUser, consulted |-> <<"instance", "user">>]
    ELSE IF metric = NoName
    THEN [err |-> ErrNoMetricName, consulted |-> <<"instance", "user">>]
    ELSE IF metricFails
    THEN [err |-> ErrMaxSeriesPerMetric, consulted |-> <<"instance", "user", "metric">>]
    ELSE [err |-> NilError, consulted |-> <<"instance", "user", "metric">>]

seriesFrame ==
    /\ UNCHANGED <<state, pushesInFlight, push, chPc, chDur, chMin, chMax, shipping,
                   closePc, compacted>>
    /\ UNCHANGED shipVars
    /\ UNCHANGED closeVars
    /\ UNCHANGED snapVars
    /\ UNCHANGED lockVars

\* The storage engine is about to create a series: PreCreation is called, and
\* the series is created only if it returns nil.
PreCreation(g) ==
    /\ creating[g] = "idle"
    /\ instanceSeriesCount + Cardinality({x \in Creators : creating[x] # "idle"}) <= MaxSeries
    /\ \E metric \in LabelSets, userFails, metricFails \in BOOLEAN :
          LET r == preCreationResult(metric, userFails, metricFails) IN
          /\ lret' = [kind |-> "PreCreation", caller |-> g, metric |-> metric,
                      userFails |-> userFails, metricFails |-> metricFails,
                      consulted |-> r.consulted, err |-> r.err]
          /\ creating' = [creating EXCEPT ![g] = IF r.err = NilError THEN metric ELSE "idle"]
    /\ UNCHANGED <<limiter, instanceLimits, instanceSeriesCount, seriesInMetric, headSeries>>
    /\ seriesFrame

\* PostCreation of the series just created.
PostCreation(g) ==
    /\ creating[g] # "idle"
    /\ instanceSeriesCount' = instanceSeriesCount + 1
    /\ seriesInMetric' = IF creating[g] = NoName THEN seriesInMetric
                         ELSE [seriesInMetric EXCEPT ![creating[g]] = @ + 1]
    /\ headSeries' = [headSeries EXCEPT ![creating[g]] = @ + 1]
    /\ creating' = [creating EXCEPT ![g] = "idle"]
    /\ lret' = NoRet
    /\ UNCHANGED <<limiter, instanceLimits>>
    /\ seriesFrame

\* How many times a label set occurs in a batch.
Occurrences(batch, m) == Cardinality({i \in DOMAIN batch : batch[i] = m})
\* The tenant's series without a metric name.
SeriesWithoutName ==
    instanceSeriesCount - seriesInMetric["m1"] - seriesInMetric["m2"]

\* Mutant: the instance-wide counter is lowered by the number of series of the
\* batch's first label set, not by the size of the batch.
PostDeletion_FirstOnly ==
    /\ \E batch \in UNION {[1..n -> LabelSets] : n \in 1..2} :
          /\ \A m \in MetricNames : Occurrences(batch, m) <= seriesInMetric[m]
          /\ Occurrences(batch, NoName) <= SeriesWithoutName
          /\ instanceSeriesCount' = instanceSeriesCount - Occurrences(batch, batch[1])
          /\ seriesInMetric' = [m \in MetricNames |-> seriesInMetric[m] - Occurrences(batch, m)]
          /\ headSeries' = [l \in LabelSets |-> headSeries[l] - Occurrences(batch, l)]
          /\ lret' = [kind |-> "PostDeletion", metrics |-> batch]
    /\ UNCHANGED <<limiter, instanceLimits, creating>>
    /\ seriesFrame

\* PostDeletion of a batch of series the head has dropped.
PostDeletion ==
    /\ \E batch \in UNION {[1..n -> LabelSets] : n \in 1..2} :
          /\ \A m \in MetricNames : Occurrences(batch, m) <= seriesInMetric[m]
          /\ Occurrences(batch, NoName) <= SeriesWithoutName
          /\ instanceSeriesCount' = instanceSeriesCount - Len(batch)
          /\ seriesInMetric' = [m \in MetricNames |-> seriesInMetric[m] - Occurrences(batch, m)]
          /\ headSeries' = [l \in LabelSets |-> headSeries[l] - Occurrences(batch, l)]
          /\ lret' = [kind |-> "PostDeletion", metrics |-> batch]
    /\ UNCHANGED <<limiter, instanceLimits, creating>>
    /\ seriesFrame

\* The tenants the callbacks are called on: with or without a limiter, without
\* instance limits (-1), with the limit switched off (0) or set.
InitSeries ==
    /\ mode \in {"head_only", "blocks", "blocks_shipping"}
    /\ now = 0
    /\ blockMeta = [b \in BlockIDs |-> NoMeta]
    /\ local = {}
    /\ remote = {}
    /\ curFile = Absent
    /\ legFile = Absent
    /\ curTmp = Absent
    /\ legTmp = Absent
    /\ u_shippedBlocks = {}
    /\ pc = "idle"
    /\ shippedBlocks = EmptyMap
    /\ metas = << >>
    /\ idx = 0
    /\ meta = EmptyMap
    /\ shipped = 0
    /\ uploadErrs = 0
    /\ ret = NoRet
    /\ calls = << >>
    /\ uploadCount = [b \in BlockIDs |-> 0]
    /\ deletable = {}
    /\ toDelete = {}
    /\ lastRun = "none"
    /\ prevRun = "none"
    /\ disturbed = FALSE
    /\ state = active
    /\ pushesInFlight = 0
    /\ push = [p \in Pushers |-> "idle"]
    /\ chPc = [c \in Compactors |-> "idle"]
    /\ chDur = [c \in Compactors |-> 0]
    /\ chMin = [c \in Compactors |-> 0]
    /\ chMax = [c \in Compactors |-> 0]
    /\ shipping = FALSE
    /\ closePc = "idle"
    /\ compacted = [c \in Compactors |-> << >>]
    /\ lret = NoRet
    /\ deletionMarkFound = FALSE
    /\ lastUpdate = 0
    /\ headNumSeries = 0
    /\ fresh = [r \in Refreshers |-> NoRet]
    /\ held = [r \in Readers |-> NoRet]
    /\ reads = {}
    /\ limiter \in {"nil", "set"}
    /\ instanceLimits \in (0 - 1)..MaxSeries
    /\ instanceSeriesCount = 0
    /\ seriesInMetric = [m \in MetricNames |-> 0]
    /\ headSeries = [l \in LabelSets |-> 0]
    /\ creating = [g \in Creators |-> "idle"]
    /\ stateMtx = [w |-> 0, r |-> {}]
    /\ shippedBlocksMtx = 0
    /\ locker = [t \in Lockers |-> [pc |-> "idle", got |-> {}]]

NextSeries ==
    \/ \E g \in Creators : PreCreation(g) \/ PostCreation(g)
    \/ PostDeletion

SpecSeries == InitSeries /\ [][NextSeries]_vars

\* ------------------------------------------------------------------ C22
\* PreCreation has just returned.
PreCreated == lret.kind = "PreCreation"
InstanceLimitReached == instanceLimits > 0 /\ instanceSeriesCount >= instanceLimits

\* C22 as stated: the instance limit, when set and reached, rejects with
\* errMaxInMemorySeriesReached before anything else is consulted; then the
\* tenant's limiter, then the per-metric one; nil only if all three pass.
C22_Original ==
    PreCreated =>
       /\ InstanceLimitReached =>
             lret.err = errMaxInMemorySeriesReached /\ lret.consulted = <<"instance">>
       /\ (~InstanceLimitReached /\ lret.userFails) =>
             lret.err = ErrMaxSeriesPerUser /\ lret.consulted = <<"instance", "user">>
       /\ lret.err = NilError =>
             ~InstanceLimitReached /\ ~lret.userFails /\ ~lret.metricFails

\* C22, amended: with a limiter set, PreCreation looks at the instance limit,
\* then asks the tenant's limiter, then the per-metric one, and returns the
\* first failure without consulting what comes later (a label set without a
\* metric name fails before the per-metric limiter is asked); it returns nil
\* only if all pass. Without a limiter it returns nil and consults nothing.
C22_ChecksInOrder ==
    PreCreated =>
       /\ limiter = "nil" => lret.err = NilError /\ lret.consulted = << >>
       /\ limiter = "set" =>
             /\ InstanceLimitReached =>
                   lret.err = errMaxInMemorySeriesReached /\ lret.consulted = <<"instance">>
             /\ (~InstanceLimitReached /\ lret.userFails) =>
                   lret.err = ErrMaxSeriesPerUser /\ lret.consulted = <<"instance", "user">>
             /\ (~InstanceLimitReached /\ ~lret.userFails /\ lret.metric = NoName) =>
                   lret.err = ErrNoMetricName /\ lret.consulted = <<"instance", "user">>
             /\ (~InstanceLimitReached /\ ~lret.userFails /\ lret.metric # NoName
                   /\ lret.metricFails) =>
                   lret.err = ErrMaxSeriesPerMetric
             /\ lret.err = NilError =>
                   /\ ~InstanceLimitReached /\ ~lret.userFails /\ ~lret.metricFails
                   /\ lret.metric # NoName
                   /\ lret.consulted = <<"instance", "user", "metric">>

\* C22 witness: with a limiter set and series already counted, the instance
\* limit is reached and PreCreation rejects on it although both limiters
\* would have failed too.
C22_Witness ==
    /\ PreCreated
    /\ limiter = "set"
    /\ instanceSeriesCount > 0
    /\ InstanceLimitReached
    /\ lret.userFails /\ lret.metricFails
    /\ lret.err = errMaxInMemorySeriesReached

\* ------------------------------------------------------------------ C23
\* C23: a record that cannot be read does not make Sync fail. The pass starts
\* from an empty previously-shipped set; the only errors Sync returns are those
\* of the listing, of an existence check and of failed uploads; the record it
\* builds holds only blocks of its listing; and a block whose meta object is in
\* the bucket is recorded by the existence check, never uploaded again.
C23_StartsEmpty ==
    (pc = "idle" /\ pc' # "idle" /\ ReadFails(curFile, legFile)) =>
        shippedBlocks' = EmptyMap /\ ret' = NoRet
C23_RemoteNotUploaded ==
    \A i \in DOMAIN calls' :
       i > Len(calls) =>
          /\ calls'[i].op = "Upload" => calls'[i].block \notin remote
          /\ (calls'[i].op = "Exists" /\ calls'[i].res = "true" /\ i = Len(calls')) =>
                /\ calls'[i].block \in DOMAIN meta'
                /\ uploadCount' = uploadCount
C23_Errors ==
    ret.kind = "returned" =>
        \/ ret.err \in {NilErr, ErrCheckExists, ErrReadDir}
        \/ \E n \in 1..NumBlocks : ret.err = ErrFailedToSync(n)
C23_RebuiltFromLocal ==
    /\ DOMAIN meta \subseteq Range(metas)
    /\ Range(metas) \subseteq local
    /\ \A b \in BlockIDs : uploadCount[b] <= 1
C23_BadRecordCostsOnlyChecks ==
    /\ [](C23_Errors /\ C23_RebuiltFromLocal)
    /\ [][C23_StartsEmpty /\ C23_RemoteNotUploaded]_vars

\* C23 witness: the record has been unreadable since before the pass began;
\* the pass has found a block uploaded by an earlier pass in the bucket and has
\* put it in the new record without uploading it.
C23_Witness ==
    /\ pc \in {"loop", "write"}
    /\ ~disturbed
    /\ ReadFails(curFile, legFile)
    /\ shippedBlocks = EmptyMap
    /\ \E i \in DOMAIN calls :
          /\ CallIs(i, "Exists", "true")
          /\ uploadCount[calls[i].block] = 1
          /\ calls[i].block \in DOMAIN meta
          /\ \A j \in DOMAIN calls : calls[j].op = "Upload" => calls[j].block # calls[i].block

\* ------------------------------------------------------------------ C24
\* C24: a block of the listing that is in the previously-shipped set is passed
\* over with no bucket call and no count, its timestamp going into the new
\* record as it was read; so, while the current-format file can be read, the
\* record being built agrees with the file on the timestamp of every block
\* they both hold, and what replaces the file is that record.
C24_CarryStep ==
    (pc = "loop" /\ idx' = idx + 1 /\ metas[idx] \in DOMAIN shippedBlocks) =>
        /\ calls' = calls
        /\ shipped' = shipped
        /\ uploadCount' = uploadCount
        /\ remote' = remote
        /\ meta' = Put(meta, metas[idx], TimeFromUnixNano(shippedBlocks[metas[idx]]))
C24_SameTimestamp ==
    (pc \in {"loop", "write", "w_remove"} /\ UsableCurrent(curFile)) =>
        \A b \in DOMAIN meta \cap DOMAIN curFile.shipped : meta[b] = curFile.shipped[b]
C24_RecordReplaced ==
    (pc = "w_rename" /\ UsableCurrent(curFile')) => curFile'.shipped = meta
C24_CarriedUnchanged ==
    /\ []C24_SameTimestamp
    /\ [][C24_CarryStep /\ C24_RecordReplaced]_vars

\* C24 witness: the clock has moved on since a block was recorded; a later pass
\* has taken the block into its record with the old timestamp, without a
\* bucket call for it.
C24_Witness ==
    /\ pc \in {"loop", "write"}
    /\ UsableCurrent(curFile)
    /\ \E b \in DOMAIN meta \cap DOMAIN curFile.shipped :
          /\ meta[b] < ModelNow
          /\ \A i \in DOMAIN calls : calls[i].block # b
    /\ shipped = 0

\* ------------------------------------------------------------------ C25
\* C25: when permits are given back and CompactHead returns, a compactHead
\* call that has won the transition to forceCompacting returns in the end, the
\* state active again; and for as long as a permit is outstanding the call
\* stays at its wait, during which every acquireAppendLock is refused.
C25_Returns ==
    \A c \in Compactors :
       (chPc[c] # "idle") ~>
           (chPc[c] = "idle" /\ lret.kind = "compactHead" /\ lret.caller = c
              /\ state = active)
C25_HeldBack ==
    \A c \in Compactors :
       chPc[c] = "wait" =>
          /\ pushesInFlight > 0 => chPc'[c] = "wait"
          /\ lret'.kind = "acquireAppendLock" =>
                lret'.err = "forced compaction in progress"
C25_DrainThenReturn ==
    /\ C25_Returns
    /\ [][C25_HeldBack]_vars

\* C25 witness: a compactHead call is at its wait while every push request
\* holds a permit.
C25_Witness ==
    \E c \in Compactors :
       /\ chPc[c] = "wait"
       /\ pushesInFlight = NumPushers
       /\ state = forceCompacting

\* ------------------------------------------------------------------ C26
\* C26: every time range a compactHead call passes to CompactHead lies inside
\* one aligned window [k*blockDuration, (k+1)*blockDuration), for any head
\* minTime <= maxTime, negative timestamps included (\div rounds down, so
\* t \div d is the k of the window t is in).
C26_OneWindowPerRange ==
    \A c \in Compactors :
       \A i \in DOMAIN compacted[c] :
          LET lo == compacted[c][i][1]
              hi == compacted[c][i][2]
          IN  /\ lo <= hi
              /\ chPc[c] # "idle" => (lo \div chDur[c]) = (hi \div chDur[c])

\* ------------------------------------------------------------------ C27
\* The compactHead calls past their transition to forceCompacting.
InCompactHead == {c \in Compactors : chPc[c] # "idle"}


\* C27, amended: at most one compactHead call holds the state, and while one
\* does no shipping pass and no shutdown is under way; a shipping pass begins
\* only from active and the state is activeShipping only during a pass; a
\* compactHead call that loses returns its error and changes nothing of the
\* state or of the winner; an acquireAppendLock made while the state is
\* activeShipping is permitted. (A shutdown may take the state over from a
\* running shipping pass; from then on pushes are refused.)
C27_OneOwner ==
    /\ Cardinality(InCompactHead) <= 1
    /\ InCompactHead # {} => (state = forceCompacting /\ ~shipping /\ closePc # "drain")
    /\ state = forceCompacting => InCompactHead # {}
    /\ state = activeShipping => (shipping /\ closePc # "drain")
    /\ closePc = "drain" => state = closing
    /\ shipping => state \in {activeShipping, closing, closed}
C27_Steps ==
    /\ (lret'.kind = "compactHead" /\ lret'.err = ErrNotActive) =>
          (state' = state /\ chPc' = chPc /\ state # active)
    /\ (~shipping /\ shipping') => (state = active /\ state' = activeShipping)
    /\ \A c \in Compactors :
          (chPc[c] = "idle" /\ chPc'[c] # "idle") =>
             (state = active /\ state' = forceCompacting)
    /\ (state = activeShipping /\ lret'.kind = "acquireAppendLock") =>
          lret'.err = NilError
C28_StrictlyBefore ==
    /\ Checked =>
          /\ lret.isIdle <=> (lastUpdate * NanosPerSecond + lret.idleTimeout < now)
          /\ (lastUpdate * NanosPerSecond + lret.idleTimeout = now) => ~lret.isIdle
    /\ lret.kind = "setLastUpdate" =>
          /\ lastUpdate * NanosPerSecond <= lret.t
          /\ lret.t < (lastUpdate + 1) * NanosPerSecond

\* C28 witness: a tenant is asked about exactly the idle timeout after the
\* second its last update is stored as, and is found not idle.
C28_Witness ==
    /\ Checked
    /\ lastUpdate > 0
    /\ lret.idleTimeout > 0
    /\ lastUpdate * NanosPerSecond + lret.idleTimeout = now
    /\ ~lret.isIdle

\* ------------------------------------------------------------------ C29
\* A refresh between Sync passes that reads the current-format file.
C29_QuietRefresh ==
    /\ ret'.kind = "updateCachedShippedBlocks"
    /\ pc = "idle" /\ pc' = "idle"
    /\ ~HeadNotNil
    /\ UsableCurrent(curFile)

\* C29 as stated: a refresh only ever adds block IDs to the cache.
C29_Original ==
    [][C29_QuietRefresh => u_shippedBlocks \subseteq u_shippedBlocks']_vars

\* C29, amended: the cache changes only at a refresh (and is empty after a
\* restart); a refresh that reads the current-format file makes it the key set
\* of that file, so that a second refresh with no write in between changes
\* nothing; and such a refresh drops no block that is still in the tenant's
\* directory. (A shipped block that has been deleted locally is left out of
\* the record by the next Sync pass and of the cache by the refresh after it.)
C29_ChangesAtRefreshOnly ==
    u_shippedBlocks' # u_shippedBlocks =>
        \/ ret'.kind = "updateCachedShippedBlocks"
        \/ u_shippedBlocks' = {} /\ pc' = "idle" /\ ret' = NoRet
C29_KeepsLocalBlocks ==
    C29_QuietRefresh =>
        /\ u_shippedBlocks' = DOMAIN curFile.shipped
        /\ (u_shippedBlocks \ u_shippedBlocks') \cap local = {}
C29_CacheFollowsRecord ==
    [][C29_ChangesAtRefreshOnly /\ C29_KeepsLocalBlocks]_vars

\* C29 witness: a block was shipped, cached and deleted locally; a later pass
\* has left it out of the record, and the refresh after it has taken it out of
\* the cache, which still holds another block.
C29_Witness ==
    /\ ret.kind = "updateCachedShippedBlocks"
    /\ pc = "idle"
    /\ UsableCurrent(curFile)
    /\ u_shippedBlocks # {}
    /\ \E b \in BlockIDs :
          /\ uploadCount[b] = 1
          /\ b \notin local
          /\ b \notin u_shippedBlocks

\* ------------------------------------------------------------------ C30
\* The contents of the tenant's directory change behind the userTSDB's back:
\* block directories and meta files of either format, sound or not, can lie
\* there whatever the mode of the userTSDB.
DiskChanges ==
    /\ pc = "idle"
    /\ curFile' \in {Absent, Garbled, OtherVersion("meta")}
                    \cup {[kind |-> "meta", version |-> shipperMetaVersion1,
                           shipped |-> [b \in ids |-> 0]] : ids \in SUBSET BlockIDs}
    /\ legFile' \in {Absent, Garbled, OtherVersion("thanos")}
                    \cup {[kind |-> "thanos", version |-> shipperMetaVersion1,
                           uploaded |-> ids] : ids \in SUBSET BlockIDs}
    /\ \E k \in 0..NumBlocks :
          /\ blockMeta' = [b \in BlockIDs |-> IF b <= k THEN [numSamples |-> 1, level |-> 1]
                                              ELSE NoMeta]
          /\ local' = 1..k
    /\ ForgetRet
    /\ ForgetBtd
    /\ UNCHANGED <<mode, now, remote, u_shippedBlocks, pc, syncLocals, uploadCount, runVars>>
    /\ UNCHANGED lifeVars
    /\ UNCHANGED tmpFiles
    /\ UNCHANGED closeVars
    /\ UNCHANGED snapVars
    /\ UNCHANGED seriesVars
    /\ UNCHANGED lockVars

InitHeadOnly == Init /\ HeadNotNil
NextHeadOnly ==
    \/ DiskChanges
    \/ updateCachedShippedBlocks
    \/ CheckClose
SpecHeadOnly == InitHeadOnly /\ [][NextHeadOnly]_vars

\* C30: in head-only mode the shipped-block cache is always empty,
\* getCachedShippedBlocks gives the empty set and getOldestUnshippedBlockTime
\* gives 0, whatever lies on disk; and updateCachedShippedBlocks returns nil and
\* changes neither the cache nor anything on disk, also when the meta files
\* could not be read. (A step that leaves ret a refresh result and lret as it
\* was is a refresh: every other step sets one of the two.)
C30_AlwaysEmpty ==
    HeadNotNil =>
        /\ u_shippedBlocks = {}
        /\ getCachedShippedBlocks = {}
        /\ getOldestUnshippedBlockTime = 0
C30_RefreshDoesNothing ==
    (HeadNotNil /\ ret'.kind = "updateCachedShippedBlocks" /\ lret' = lret) =>
        /\ ret'.err = FALSE
        /\ UNCHANGED <<mode, now, blockMeta, local, remote, curFile, legFile,
                       u_shippedBlocks, pc, uploadCount>>
        /\ UNCHANGED <<lifeVars, closeVars, snapVars, seriesVars>>
C30_HeadOnlyHasNoCache ==
    [](C30_AlwaysEmpty) /\ [][C30_RefreshDoesNothing]_vars

\* C30 witness: a head-only tenant has refreshed while the current-format file
\* lists a block and another block directory, not listed, lies next to it.
C30_Witness ==
    /\ HeadNotNil
    /\ ret.kind = "updateCachedShippedBlocks"
    /\ UsableCurrent(curFile)
    /\ DOMAIN curFile.shipped # {}
    /\ local \ DOMAIN curFile.shipped # {}

\* ------------------------------------------------------------------ C31
\* A meta file as a reader finds it: not there, or whole.
C31_WholeOrAbsent ==
    /\ curFile = Absent \/ UsableCurrent(curFile)
    /\ legFile = Absent \/ UsableLegacy(legFile)
C31_WriteSteps ==
    /\ files' # files => pc \in {"w_remove", "w_rename", "l_remove", "l_rename"}
    /\ curFile' # curFile =>
          \/ pc = "w_remove" /\ curFile' = Absent
          \/ pc = "w_rename" /\ curTmp = EncodedMeta /\ curFile' = EncodedMeta
    /\ (pc # "idle" /\ pc' = "idle" /\ ret' = NoRet) => files' = files
    /\ (pc # "idle" /\ ret'.kind = "returned" /\ ret'.persisted) =>
          /\ curFile' = EncodedMeta
          /\ legFile' = [kind |-> "thanos", version |-> shipperMetaVersion1,
                          uploaded |-> DOMAIN meta]

C32_CountersFollowSeries ==
    /\ instanceSeriesCount =
          headSeries["m1"] + headSeries["m2"] + headSeries[NoName]
    /\ \A m \in MetricNames : seriesInMetric[m] = headSeries[m]
C32_Steps ==
    /\ \A g \in Creators :
          (creating[g] # "idle" /\ creating'[g] = "idle") =>
             /\ instanceSeriesCount' = instanceSeriesCount + 1
             /\ \A m \in MetricNames :
                   seriesInMetric'[m] = seriesInMetric[m] + (IF m = creating[g] THEN 1 ELSE 0)
    /\ (lret'.kind = "PostDeletion" /\ headSeries' # headSeries) =>
             /\ instanceSeriesCount' = instanceSeriesCount - Len(lret'.metrics)
             /\ \A m \in MetricNames :
                   seriesInMetric'[m] = seriesInMetric[m] - Occurrences(lret'.metrics, m)

\* C32: PostCreation adds 1 to the instance-wide counter and 1 to the counter
\* of the series' metric name; PostDeletion takes the batch size off the
\* instance-wide counter and 1 per series off the counter of its metric name; a
\* label set without a metric name moves the instance-wide counter only, both
\* ways. So the counters are a function of the series the head holds: creating
\* series and deleting the same ones, in any batches and order, brings both
\* back to what they were.
C32_Symmetric ==
    [](C32_CountersFollowSeries) /\ [][C32_Steps]_vars

\* C32 witness: two series, one of them without a metric name, were created
\* and have just been deleted in one batch; every counter is back at 0.
C32_Witness ==
    /\ lret.kind = "PostDeletion"
    /\ Len(lret.metrics) = 2
    /\ \E i \in DOMAIN lret.metrics : lret.metrics[i] = NoName
    /\ \E i \in DOMAIN lret.metrics : lret.metrics[i] # NoName
    /\ instanceSeriesCount = 0
    /\ \A m \in MetricNames : seriesInMetric[m] = 0

\* ------------------------------------------------------------------ C33
\* The steps of Shipper.Sync.
SyncSteps ==
    \/ SyncStart \/ SyncListFails
    \/ SyncCarry \/ SyncSkipEmpty \/ SyncSkipLevel
    \/ SyncExistsErr \/ SyncExistsTrue \/ SyncUploadFails \/ SyncUploadOk
    \/ WriteTmp \/ WriteRemove \/ WriteRename
    \/ ThanosTmp \/ ThanosRemove \/ ThanosRename
\* A step in which something fails: the listing of the directory, an existence
\* check, an upload, a step of the write of the record, or the process.
SomethingFails ==
    \/ Crash
    \/ SyncListFails \/ SyncExistsErr \/ SyncUploadFails
    \/ pc # "idle" /\ ret'.kind = "returned" /\ ~ret'.persisted

\* The tenant store where Sync is called again and again and each of its steps
\* returns, and where from some time on nothing fails any more.
SpecRetry ==
    /\ SpecStore
    /\ WF_vars(SyncSteps)
    /\ <>[][~SomethingFails]_vars

C33_Eligible(b) == blockMeta[b].numSamples > 0 /\ blockMeta[b].level <= 1
\* What Sync does with the block it is at, when that block is eligible and not
\* in the record read at the start of the pass.
C33_Attempt ==
    (pc = "loop" /\ (idx' = idx + 1 \/ ret'.kind = "returned")) =>
       LET m == metas[idx]
           n == Len(calls) IN
       (m \notin DOMAIN shippedBlocks /\ C33_Eligible(m)) =>
          /\ Len(calls') > n
          /\ calls'[n + 1].op = "Exists" /\ calls'[n + 1].block = m
          /\ calls'[n + 1].res = "false" =>
                /\ Len(calls') = n + 2
                /\ calls'[n + 2].op = "Upload" /\ calls'[n + 2].block = m
                /\ calls'[n + 2].res = "failed" =>
                      /\ m \notin DOMAIN meta'
                      /\ uploadErrs' = uploadErrs + 1
                      /\ pc' # "idle"
                /\ calls'[n + 2].res = "ok" => m \in DOMAIN meta'
C33_InTheEnd ==
    \A b \in BlockIDs :
       (~ShipperNil /\ b \in local /\ C33_Eligible(b))
          ~> (b \in ShippedIn(curFile) \/ b \notin local)

lockFrame ==
    /\ UNCHANGED <<mode, now, blockMeta, local, remote, files, tmpFiles, pc, syncLocals,
                   ret, calls, uploadCount, btdVars, runVars>>
    /\ UNCHANGED <<push, chPc, chDur, chMin, chMax, shipping, closePc, compacted, lret>>
    /\ UNCHANGED closeVars
    /\ UNCHANGED snapVars
    /\ UNCHANGED seriesVars

\* A goroutine calls acquireAppendLock, compactHead, updateCachedShippedBlocks,
\* or getCachedShippedBlocks (by itself or from blocksToDelete), and runs up to
\* the first mutex of the call. compactHead and the two cache operations return
\* at once in head-only mode; updateCachedShippedBlocks reads the meta files
\* before it takes its mutex and returns if the read fails.
lockerBegin(t) ==
    /\ locker[t].pc = "idle"
    /\ \/ locker' = [locker EXCEPT ![t].pc = "aal_lock"]
       \/ ~HeadNotNil /\ locker' = [locker EXCEPT ![t].pc = "cas_lock"]
       \/ /\ ~HeadNotNil
          /\ LET r == readShippedBlocks(curFile, legFile, now) IN
             /\ ~r.err
             /\ locker' = [locker EXCEPT ![t] = [pc |-> "upd_lock", got |-> DOMAIN r.blocks]]
       \/ ~HeadNotNil /\ locker' = [locker EXCEPT ![t].pc = "get_lock"]
    /\ UNCHANGED <<stateMtx, shippedBlocksMtx, state, pushesInFlight, u_shippedBlocks>>
    /\ lockFrame

\* stateMtx.RLock() in acquireAppendLock, stateMtx.Lock() in casState. A read
\* lock is not given while a writer holds the mutex or waits for readers to
\* leave; the write lock is given when nobody holds the mutex.
stateMtxLock(t) ==
    /\ \/ /\ locker[t].pc = "aal_lock"
          /\ stateMtx.w = 0
          /\ ~(stateMtx.r # {} /\ \E u \in Lockers : locker[u].pc \in {"cas_lock", "back_lock"})
          /\ stateMtx' = [stateMtx EXCEPT !.r = @ \cup {t}]
          /\ locker' = [locker EXCEPT ![t].pc = "aal_in"]
       \/ /\ locker[t].pc \in {"cas_lock", "back_lock"}
          /\ stateMtx.w = 0
          /\ stateMtx.r = {}
          /\ stateMtx' = [stateMtx EXCEPT !.w = t]
          /\ locker' = [locker EXCEPT ![t].pc = IF locker[t].pc = "cas_lock" THEN "cas_in"
                                                ELSE "back_in"]
    /\ UNCHANGED <<shippedBlocksMtx, state, pushesInFlight, u_shippedBlocks>>
    /\ lockFrame

\* Mutant: compactHead keeps stateMtx while it waits for the pushes in flight.
stateMtxUnlock_HeldOverWait(t) ==
    /\ \/ /\ locker[t].pc = "aal_in"
          /\ stateMtx' = [stateMtx EXCEPT !.r = @ \ {t}]
          /\ IF acquireAppendLockErr(state) = NilError
             THEN /\ pushesInFlight' = pushesInFlight + 1
                  /\ locker' = [locker EXCEPT ![t].pc = "appending"]
             ELSE /\ UNCHANGED pushesInFlight
                  /\ locker' = [locker EXCEPT ![t].pc = "idle"]
          /\ UNCHANGED state
       \/ /\ locker[t].pc = "cas_in"
          /\ casState(active, forceCompacting)
          /\ locker' = [locker EXCEPT ![t].pc = IF casStateOk(active) THEN "wait" ELSE "idle"]
          /\ stateMtx' = IF casStateOk(active) THEN stateMtx ELSE [stateMtx EXCEPT !.w = 0]
          /\ UNCHANGED pushesInFlight
       \/ /\ locker[t].pc = "back_in"
          /\ casState(forceCompacting, active)
          /\ locker' = [locker EXCEPT ![t].pc = "idle"]
          /\ stateMtx' = [stateMtx EXCEPT !.w = 0]
          /\ UNCHANGED pushesInFlight
    /\ UNCHANGED <<shippedBlocksMtx, u_shippedBlocks>>
    /\ lockFrame

\* The body of acquireAppendLock or of casState, and the deferred unlock:
\* acquireAppendLock adds to pushesInFlight if the state allows appends;
\* compactHead's first casState takes active to forceCompacting and goes on to
\* wait if it swapped, its deferred one takes forceCompacting back to active.
stateMtxUnlock(t) ==
    /\ \/ /\ locker[t].pc = "aal_in"
          /\ stateMtx' = [stateMtx EXCEPT !.r = @ \ {t}]
          /\ IF acquireAppendLockErr(state) = NilError
             THEN /\ pushesInFlight' = pushesInFlight + 1
                  /\ locker' = [locker EXCEPT ![t].pc = "appending"]
             ELSE /\ UNCHANGED pushesInFlight
                  /\ locker' = [locker EXCEPT ![t].pc = "idle"]
          /\ UNCHANGED state
       \/ /\ locker[t].pc = "cas_in"
          /\ casState(active, forceCompacting)
          /\ locker' = [locker EXCEPT ![t].pc = IF casStateOk(active) THEN "wait" ELSE "idle"]
          /\ stateMtx' = [stateMtx EXCEPT !.w = 0]
          /\ UNCHANGED pushesInFlight
       \/ /\ locker[t].pc = "back_in"
          /\ casState(forceCompacting, active)
          /\ locker' = [locker EXCEPT ![t].pc = "idle"]
          /\ stateMtx' = [stateMtx EXCEPT !.w = 0]
          /\ UNCHANGED pushesInFlight
    /\ UNCHANGED <<shippedBlocksMtx, u_shippedBlocks>>
    /\ lockFrame

\* compactHead, line 225: pushesInFlight.Wait(), no mutex held; then the head
\* is compacted and the deferred casState runs.
pushesInFlightWait(t) ==
    /\ locker[t].pc = "wait"
    /\ pushesInFlight = 0
    /\ locker' = [locker EXCEPT ![t].pc = "back_lock"]
    /\ UNCHANGED <<stateMtx, shippedBlocksMtx, state, pushesInFlight, u_shippedBlocks>>
    /\ lockFrame

\* releaseAppendLock: pushesInFlight.Done().
pushesInFlightDone(t) ==
    /\ locker[t].pc = "appending"
    /\ pushesInFlight' = pushesInFlight - 1
    /\ locker' = [locker EXCEPT ![t].pc = "idle"]
    /\ UNCHANGED <<stateMtx, shippedBlocksMtx, state, u_shippedBlocks>>
    /\ lockFrame

\* shippedBlocksMtx.Lock() in updateCachedShippedBlocks and getCachedShippedBlocks.
shippedBlocksMtxLock(t) ==
    /\ locker[t].pc \in {"upd_lock", "get_lock"}
    /\ shippedBlocksMtx = 0
    /\ shippedBlocksMtx' = t
    /\ locker' = [locker EXCEPT ![t].pc = IF locker[t].pc = "upd_lock" THEN "upd_in"
                                          ELSE "get_in"]
    /\ UNCHANGED <<stateMtx, state, pushesInFlight, u_shippedBlocks>>
    /\ lockFrame

\* The store of the new map, or the read of the current one, and the unlock.
shippedBlocksMtxUnlock(t) ==
    /\ locker[t].pc \in {"upd_in", "get_in"}
    /\ u_shippedBlocks' = IF locker[t].pc = "upd_in" THEN locker[t].got ELSE u_shippedBlocks
    /\ shippedBlocksMtx' = 0
    /\ locker' = [locker EXCEPT ![t] = [pc |-> "idle", got |-> {}]]
    /\ UNCHANGED <<stateMtx, state, pushesInFlight>>
    /\ lockFrame

NextLocks ==
    \E t \in Lockers :
       \/ lockerBegin(t)
       \/ stateMtxLock(t) \/ stateMtxUnlock(t)
       \/ pushesInFlightWait(t) \/ pushesInFlightDone(t)
       \/ shippedBlocksMtxLock(t) \/ shippedBlocksMtxUnlock(t)

SpecLocks == Init /\ [][NextLocks]_vars

C34_HoldsState(t) == stateMtx.w = t \/ t \in stateMtx.r
C34_InStateSection(t) == locker[t].pc \in {"aal_in", "cas_in", "back_in"}
C34_InCacheSection(t) == locker[t].pc \in {"upd_in", "get_in"}
\* No goroutine holds both mutexes, or waits for one while it holds the other;
\* a mutex is held inside its own critical sections only, so not by a
\* compactHead that waits for the pushes in flight.
C34_NeverTogether ==
    \A t \in Lockers :
       /\ C34_HoldsState(t) <=> C34_InStateSection(t)
       /\ shippedBlocksMtx = t <=> C34_InCacheSection(t)
\* Whoever is inside a critical section can leave it; whoever cannot get a
\* mutex is kept out by a critical section of that same mutex (for stateMtx:
\* by a casState that holds it, or by one that waits for acquireAppendLock
\* calls to leave), whatever the other mutex and the state are; and a
\* compactHead that cannot go on waits for a push that holds a permit and can
\* give it back.
C34_OnlyOwnMutexDelays ==
    \A t \in Lockers :
       /\ C34_InStateSection(t) => ENABLED stateMtxUnlock(t)
       /\ C34_InCacheSection(t) => ENABLED shippedBlocksMtxUnlock(t)
       /\ locker[t].pc = "appending" => ENABLED pushesInFlightDone(t)
       /\ (locker[t].pc = "aal_lock" /\ ~ENABLED stateMtxLock(t)) =>
             \/ stateMtx.w # 0 /\ locker[stateMtx.w].pc \in {"cas_in", "back_in"}
             \/ /\ \E u \in Lockers : locker[u].pc \in {"cas_lock", "back_lock"}
                /\ stateMtx.r # {}
       /\ (locker[t].pc \in {"cas_lock", "back_lock"} /\ ~ENABLED stateMtxLock(t)) =>
             \E u \in Lockers : C34_HoldsState(u)
       /\ (locker[t].pc \in {"upd_lock", "get_lock"} /\ ~ENABLED shippedBlocksMtxLock(t)) =>
             shippedBlocksMtx # 0
       /\ (locker[t].pc = "wait" /\ ~ENABLED pushesInFlightWait(t)) =>
             \E u \in Lockers : locker[u].pc = "appending"
\* Some goroutine that is inside a call can take a step.
C34_NoDeadlock ==
    (\E t \in Lockers : locker[t].pc # "idle") =>
       \E t \in Lockers :
          ENABLED (\/ stateMtxLock(t) \/ stateMtxUnlock(t)
                   \/ pushesInFlightWait(t) \/ pushesInFlightDone(t)
                   \/ shippedBlocksMtxLock(t) \/ shippedBlocksMtxUnlock(t))

\* C34: stateMtx and shippedBlocksMtx are never held together; an
\* acquireAppendLock call is delayed by casState only, never by a refresh or a
\* read of the cache; updateCachedShippedBlocks, getCachedShippedBlocks and
\* blocksToDelete are delayed by one another only, never by a compactHead that
\* holds the state in forceCompacting and waits; and the operations never
\* deadlock.
C34_LocksIndependent ==
    C34_NeverTogether /\ C34_OnlyOwnMutexDelays /\ C34_NoDeadlock

\* C34 witness: a compactHead holds the state in forceCompacting and waits for a
\* push that has its permit, while one goroutine is inside the cache's critical
\* section storing a refreshed map and another inside acquireAppendLock's.
C34_Witness ==
    /\ state = forceCompacting
    /\ \E t1, t2, t3, t4 \in Lockers :
          /\ locker[t1].pc = "wait"
          /\ locker[t2].pc = "appending"
          /\ locker[t3].pc = "upd_in" /\ shippedBlocksMtx = t3
          /\ locker[t4].pc = "aal_in" /\ t4 \in stateMtx.r

\* ------------------------------------------------------------------ C35
\* What readShippedBlocks returns now: whether it failed, and the block IDs.
C35_Read ==
    LET r == readShippedBlocks(curFile, legFile, now) IN [err |-> r.err, ids |-> DOMAIN r.blocks]
C35_Returns(ids) == C35_Read = [err |-> FALSE, ids |-> ids]
C35_Writing == pc \in {"write", "w_remove", "w_rename", "l_write", "l_remove", "l_rename"}
\* The record being replaced was one whose two files agreed: both files are
\* still there and list the same blocks, or the current file has been removed
\* and the legacy file lists the blocks the pass read from it, or the current
\* file has been replaced already.
C35_Agreed ==
    \/ /\ pc \in {"write", "w_remove"}
       /\ UsableCurrent(curFile) /\ UsableLegacy(legFile)
       /\ ShippedIn(curFile) = UploadedIn(legFile)
    \/ /\ pc = "w_rename"
       /\ UsableLegacy(legFile)
       /\ UploadedIn(legFile) = DOMAIN shippedBlocks
    \/ pc \in {"l_write", "l_remove", "l_rename"}
C35_AtEveryStep ==
    (C35_Writing /\ C35_Agreed) =>
       /\ pc \in {"write", "w_remove"} =>
             ShippedIn(curFile) = DOMAIN shippedBlocks /\ C35_Returns(DOMAIN shippedBlocks)
       /\ pc = "w_rename" => curFile = Absent /\ C35_Returns(DOMAIN shippedBlocks)
       /\ pc \in {"l_write", "l_remove", "l_rename"} =>
             curFile = EncodedMeta /\ C35_Returns(DOMAIN meta)
\* A step of the write, its return on a failure, or a crash in the middle of
\* it (the only step that ends a pass without a return value).
C35_Steps ==
    (C35_Writing /\ C35_Agreed /\ pc' # pc) =>
       /\ C35_Read' = C35_Read \/ C35_Read' = [err |-> FALSE, ids |-> DOMAIN meta]
       /\ (pc' = "idle" /\ ret' = NoRet) => C35_Read' = C35_Read

\* C35: while writeShipperMetaFile replaces a record whose two files agree,
\* readShippedBlocks returns at every step the block IDs of the previous record
\* (until the rename of the current file) or those of the new record (from
\* then on), and what it returns after a crash is what it returned just
\* before; never an error or another set.
C35_PreviousOrNew == [](C35_AtEveryStep) /\ [][C35_Steps]_vars

\* C35 witness: the old current file is removed and the new one not yet in
\* place; the legacy file answers with the previous, non-empty record, to which
\* the pass adds a block.
C35_Witness ==
    /\ pc = "w_rename"
    /\ C35_Agreed
    /\ curFile = Absent
    /\ DOMAIN shippedBlocks # {}
    /\ DOMAIN shippedBlocks \subseteq DOMAIN meta
    /\ DOMAIN meta # DOMAIN shippedBlocks
    /\ C35_Returns(DOMAIN shippedBlocks)

\* ------------------------------------------------------------------ C36
\* C36 as claimed: whenever Sync has returned a nil error, the current-format
\* record on disk is the record of that pass, so it lists every block the pass
\* counted (a failed write would have been returned as an error).
C36_Original ==
    (Returned /\ ret.err = NilErr) =>
       UsableCurrent(curFile) /\ (UploadedOk \cup FoundRemote) \subseteq ShippedIn(curFile)

\* Sync returns nil after a write that succeeded: the current file is the
\* record of the pass, which lists the blocks carried forward from the record
\* read at the start and the n blocks counted.
C36_RecordOfThePass ==
    (pc # "idle" /\ ret'.kind = "returned" /\ ret'.err = NilErr /\ ret'.persisted) =>
       /\ curFile' = EncodedMeta
       /\ DOMAIN meta = (DOMAIN shippedBlocks \cap Range(metas)) \cup UploadedOk \cup FoundRemote
       /\ (DOMAIN shippedBlocks) \cap (UploadedOk \cup FoundRemote) = {}
       /\ ret'.shipped = Cardinality(UploadedOk \cup FoundRemote)
\* A pass starts from the blocks of the current file, if that can be read, and
\* neither checks, uploads nor counts any of them.
C36_NotCountedAgain ==
    /\ (pc = "idle" /\ pc' # "idle" /\ UsableCurrent(curFile)) =>
          DOMAIN shippedBlocks' = ShippedIn(curFile)
    /\ pc # "idle" =>
          \A i \in (Len(calls) + 1)..Len(calls') :
             calls'[i].block \notin DOMAIN shippedBlocks
    /\ (pc # "idle" /\ pc' # "idle" /\ shipped' # shipped) =>
          /\ shipped' = shipped + 1
          /\ Len(calls') > Len(calls)
          /\ calls'[Len(calls')].res \in {"ok", "true"}
\* A write that failed changes nothing in what Sync returns: the count of the
\* pass, and an error only if uploads failed.
C36_WriteFailureOnlyLogged ==
    (pc \in {"write", "w_remove", "w_rename", "l_write", "l_remove", "l_rename"}
       /\ ret'.kind = "returned") =>
       /\ ret'.shipped = shipped
       /\ ret'.err = IF uploadErrs > 0 THEN ErrFailedToSync(uploadErrs) ELSE NilErr

\* C36 amended: whenever Sync returns (n, nil) and writeShipperMetaFile
\* succeeded, the current-format record on disk is exactly the record of that
\* pass, the blocks carried forward and the n counted, and a following Sync
\* that reads it counts none of them again; a failure to write the record is
\* logged and not returned, Sync returns the same count and error without it.
C36_NilAndWrittenIsPersisted ==
    [][C36_RecordOfThePass /\ C36_NotCountedAgain /\ C36_WriteFailureOnlyLogged]_vars

\* C36 witness: a pass carried a block of the earlier record forward, uploaded
\* another and returned (1, nil) with both in the record on disk.
C36_Witness ==
    /\ Returned
    /\ ret.err = NilErr
    /\ ret.persisted
    /\ ret.shipped = 1
    /\ UploadedOk # {}
    /\ UploadedOk \subseteq ShippedIn(curFile)
    /\ ShippedIn(curFile) # UploadedOk

\* ------------------------------------------------------------------ C37
\* Sync returns one of its two early errors.
C37_Aborts == ret'.kind = "returned" /\ ret'.err \in {ErrReadDir, ErrCheckExists}
\* The meta files change in the steps of writeShipperMetaFile only, which a
\* pass reaches after its last block and never leaves for the loop again; so
\* from the call to an early return the two files are what they were.
C37_FilesKept ==
    /\ pc \in {"idle", "loop"} => files' = files
    /\ pc \notin {"idle", "loop"} => pc' # "loop"
\* The early return: out of the listing or out of the loop, with count 0,
\* whatever the pass has uploaded.
C37_EarlyReturn ==
    C37_Aborts =>
       /\ pc \in {"idle", "loop"}
       /\ pc' = "idle"
       /\ ret'.shipped = 0
       /\ ~ret'.persisted
       /\ files' = files

\* C37: when Sync aborts early, on a failure to list the local blocks or on a
\* failed existence check, it returns count 0 with the error, and both meta
\* files are what they were before the call, also when blocks were uploaded
\* earlier in the pass.
C37_AbortLeavesRecord == [][C37_FilesKept /\ C37_EarlyReturn]_vars

\* C37 witness: a pass uploaded a block, then an existence check failed; Sync
\* returned 0 and the error, the block is in the bucket and not in either file.
C37_Witness ==
    /\ Returned
    /\ ret.err = ErrCheckExists
    /\ ret.shipped = 0
    /\ UploadedOk # {}
    /\ UploadedOk \subseteq remote
    /\ UploadedOk \cap (ShippedIn(curFile) \cup UploadedIn(legFile)) = {}
    /\ UsableCurrent(curFile)

\* ------------------------------------------------------------------ C38
\* C38: with an instance limit MaxInMemorySeries = L > 0 and a limiter set,
\* every creation calling PreCreation and, only if that returns nil,
\* PostCreation, the shared instanceSeriesCount never exceeds L, however
\* concurrent creations interleave.
C38_NeverAboveLimit ==
    (limiter = "set" /\ instanceLimits > 0) => instanceSeriesCount <= instanceLimits

\* ------------------------------------------------------------------ C39
\* An on-disk tenant with shipping on, no deletion mark and an empty head, that
\* gets no appends any more: any blocks on disk, nothing shipped yet.
InitIdle ==
    /\ InitClose
    /\ mode = "blocks_shipping"
    /\ ~deletionMarkFound
    /\ headNumSeries = 0
    /\ u_shippedBlocks = {}
    /\ now <= MaxNow

NextIdle == SyncSteps \/ updateCachedShippedBlocks \/ Tick

\* Sync and the refresh of the cache are called again and again, and from some
\* time on nothing fails any more.
SpecIdle ==
    /\ InitIdle /\ [][NextIdle]_vars
    /\ WF_vars(SyncSteps)
    /\ WF_vars(updateCachedShippedBlocks)
    /\ <>[][~SomethingFails]_vars

\* Some idle timeout has run out; shouldCloseTSDB returns idle for every
\* timeout that has.
C39_Elapsed == \E d \in IdleTimeouts : isIdle(now, d)
C39_Idle == \A d \in IdleTimeouts : isIdle(now, d) => shouldCloseTSDB(d) = tsdbIdle

\* C39: for an on-disk tenant with shipping on, no deletion mark, no further
\* appends and an empty head, where Sync and the cache refresh are repeated and
\* the remote operations succeed in the end, shouldCloseTSDB returns idle in
\* the end once the idle timeout has run out, whatever blocks are on disk, also
\* a block without samples or of a compaction level above 1.
C39_EventuallyIdle == C39_Elapsed ~> C39_Idle

====
